---------------------------- MODULE Spec2Model ----------------------------
(***************************************************************************)
(* A model of fusion.sql.querybuilder: the immutable builder values        *)
(* (Exp, Q, Join, Query, With, QueryUnion, RecursiveWith), the builder     *)
(* operations of Query, and the recursive rendering to (text, values).     *)
(*                                                                         *)
(* Python values are records with a "kind" field.  An Optional field is a  *)
(* sequence: <<>> is None and <<x>> is the value x.  A rendered text is a  *)
(* sequence of tokens; a line break is its own token, and a placeholder    *)
(* token carries its number and the value the emitting leaf bound.         *)
(***************************************************************************)
EXTENDS Integers, Sequences, FiniteSets, TLC

VARIABLES
    q,       \* the builder value the program currently holds
    last,    \* the last call: its receiver before and after, its outcome
    nops,    \* number of builder calls made so far
    acc,     \* the caller's own accumulator list
    log,     \* outcomes of the sql() calls made on q
    calls    \* the sql() calls in progress, one per thread

vars == <<q, last, nops, acc, log, calls>>

-----------------------------------------------------------------------------
(* Bounds of the model *)

MaxChain == 2
MaxJoins == 1
MaxConds == 2
MaxOps == 2
MaxRenders == 2
MaxThreads == 2

-----------------------------------------------------------------------------
(* Python values *)

None == <<>>
Some(x) == <<x>>
IsNone(o) == o = <<>>

PyValue(kind, n, s, items) == [kind |-> kind, n |-> n, s |-> s, items |-> items]
IntV(n) == PyValue("int", n, "", <<>>)
StrV(s) == PyValue("str", 0, s, <<>>)
BoolV(b) == PyValue("bool", IF b THEN 1 ELSE 0, "", <<>>)
ListV(items) == PyValue("list", 0, "", items)
TupleV(items) == PyValue("tuple", 0, "", items)
\* a set and a dict hold their elements (their keys) in iteration order
SetV(items) == PyValue("set", 0, "", items)
DictV(items) == PyValue("dict", 0, "", items)
FloatV(n) == PyValue("float", n, "", <<>>)
\* a date and a datetime, by their day number
DateV(n) == PyValue("date", n, "", <<>>)
DatetimeV(n) == PyValue("datetime", n, "", <<>>)
NoneV == PyValue("NoneType", 0, "", <<>>)

\* class Exp: a frozen struct with one field
Exp(expression) == [kind |-> "Exp", expression |-> expression]

\* Q.__init__: self.args = args or (), self.kwargs = kwargs or {}
\* kwargs is an ordered mapping: a sequence of [key, value] entries
Q(args, kwargs) == [kind |-> "Q", args |-> args, kwargs |-> kwargs]
KW(key, value) == [key |-> key, value |-> value]

\* Q.__or__, Q.__and__, Q.__invert__: a positional entry is a tagged tuple
\* Q_or_keeping is the variant that builds Q(*self.args, ("OR", self,
\* other), **self.kwargs)
Q_or_keeping(self, other) ==
    Q(Append(self.args, [op |-> "OR", qs |-> <<self, other>>]), self.kwargs)
Q_or(self, other) == Q(<<[op |-> "OR", qs |-> <<self, other>>]>>, <<>>)
Q_and(self, other) == Q(<<[op |-> "AND", qs |-> <<self, other>>]>>, <<>>)
Q_invert(self) == Q(<<[op |-> "NOT", qs |-> <<self>>]>>, <<>>)

\* a table name given as a string, and a model class (table-ref capability)
Table(name) == [kind |-> "str", s |-> name]
Model(schema, name) == [kind |-> "Model", schema |-> schema, name |-> name]

\* Python truthiness of an Optional[Q] (a Q defines neither __bool__ nor
\* __len__, so every Q is truthy) and of an Optional[str]
TruthyQ(o) == ~IsNone(o)
TruthyStr(o) == ~IsNone(o) /\ o[1] # ""

\* The({ F(x) : x \in {v} }) is LET x == v IN F(x), with v evaluated once
The(S) == CHOOSE y \in S : TRUE

-----------------------------------------------------------------------------
(* Outcomes of a call *)

\* raise ValueError(f"<message>: ..."): the exception with its message
ValueError(message) == "ValueError: " \o message

Ok(self, value) == [status |-> "ok", self |-> self, value |-> Some(value)]
Raise(self, exc) == [status |-> exc, self |-> self, value |-> None]

-----------------------------------------------------------------------------
(* Query: the struct and its builder operations *)

\* class Query(msgspec.Struct, frozen=True) with its field defaults
Query(sources) ==
    [kind |-> "Query", sources |-> sources, selections |-> <<>>,
     conditions |-> <<>>, groupbys |-> <<>>, orderbys |-> <<>>,
     _limit |-> None, _offset |-> None, _distinct |-> None]

\* msgspec.structs.replace(self, field=val): a new struct, self untouched
replace(self, field, val) == Ok(self, [self EXCEPT ![field] = val])

\* def query(**sources)
query(sources) ==
    IF sources = <<>> THEN Raise(None, "ValueError")
    ELSE Ok(None, Query(sources))

\* source(**sources); source_prepend is the variant that puts the new
\* entries before the existing ones
source_prepend(self, sources) == replace(self, "sources", sources \o self.sources)
source(self, sources) == replace(self, "sources", self.sources \o sources)

\* a selection entry: a column string, an (alias, column) pair of strings,
\* or any other object
Col(column) == [kind |-> "str", alias |-> "", column |-> column]
AliasCol(alias, column) == [kind |-> "tuple", alias |-> alias, column |-> column]
OtherSel == [kind |-> "other", alias |-> "", column |-> ""]

select(self, args, kwargs) ==
    replace(self, "selections", self.selections \o args \o kwargs)

\* where(*args, **kwargs): each keyword becomes a Q of its own
RECURSIVE QsOfKwargs(_)
QsOfKwargs(kwargs) ==
    IF kwargs = <<>> THEN <<>>
    ELSE <<Q(<<>>, <<Head(kwargs)>>)>> \o QsOfKwargs(Tail(kwargs))

where(self, args, kwargs) ==
    replace(self, "conditions", self.conditions \o args \o QsOfKwargs(kwargs))

group_by(self, groups) == replace(self, "groupbys", self.groupbys \o groups)

\* an order-by string is the sequence of its pieces: a leading "-" is a piece
Asc(column) == <<column>>
Desc(column) == <<"-", column>>

order_by(self, orderbys) == replace(self, "orderbys", self.orderbys \o orderbys)

\* limit(n) and offset(n); limit_unchecked is the variant without the check
limit_unchecked(self, n) == replace(self, "_limit", Some(n))
limit(self, n) ==
    IF n < 0 THEN Raise(self, "ValueError")
    ELSE replace(self, "_limit", Some(n))

offset(self, n) ==
    IF n < 0 THEN Raise(self, "ValueError")
    ELSE replace(self, "_offset", Some(n))

distinct(self, on) == replace(self, "_distinct", on)

\* an index: a scalar, or slice(start, stop, step) with Optional bounds
Scalar(n) == [isslice |-> FALSE, start |-> Some(n), stop |-> None, step |-> None]
Slice(start, stop, step) ==
    [isslice |-> TRUE, start |-> start, stop |-> stop, step |-> step]

\* Query.__getitem__; getitem_start0 is the variant that takes an absent
\* start as 0, getitem_step1 the variant that accepts the step 1
getitem_start0(self, key) ==
    IF ~key.isslice THEN Raise(self, "TypeError")
    ELSE IF ~IsNone(key.step) THEN Raise(self, "ValueError")
    ELSE LET r1 == IF ~IsNone(key.start) THEN offset(self, key.start[1])
                   ELSE offset(self, 0)
         IN IF r1.status # "ok" THEN Raise(self, r1.status)
            ELSE IF IsNone(key.stop) THEN Ok(self, r1.value[1])
            ELSE LET lim == IF ~IsNone(key.start) /\ key.start[1] # 0
                            THEN key.stop[1] - key.start[1]
                            ELSE key.stop[1]
                     r2 == limit(r1.value[1], lim)
                 IN IF r2.status # "ok" THEN Raise(self, r2.status)
                    ELSE Ok(self, r2.value[1])
getitem_step1(self, key) ==
    IF ~key.isslice THEN Raise(self, "TypeError")
    ELSE IF ~IsNone(key.step) /\ key.step[1] # 1 THEN Raise(self, "ValueError")
    ELSE LET r1 == IF ~IsNone(key.start) THEN offset(self, key.start[1])
                   ELSE Ok(self, self)
         IN IF r1.status # "ok" THEN Raise(self, r1.status)
            ELSE IF IsNone(key.stop) THEN Ok(self, r1.value[1])
            ELSE LET lim == IF ~IsNone(key.start) /\ key.start[1] # 0
                            THEN key.stop[1] - key.start[1]
                            ELSE key.stop[1]
                     r2 == limit(r1.value[1], lim)
                 IN IF r2.status # "ok" THEN Raise(self, r2.status)
                    ELSE Ok(self, r2.value[1])
\* getitem_unbounded is the variant in which a slice without a stop drops
\* the limit
getitem_unbounded(self, key) ==
    IF ~key.isslice THEN Raise(self, "TypeError")
    ELSE IF ~IsNone(key.step) THEN Raise(self, "ValueError")
    ELSE LET r1 == IF ~IsNone(key.start) THEN offset(self, key.start[1])
                   ELSE Ok(self, self)
         IN IF r1.status # "ok" THEN Raise(self, r1.status)
            ELSE IF IsNone(key.stop)
            THEN Ok(self, [r1.value[1] EXCEPT !._limit = None])
            ELSE LET lim == IF ~IsNone(key.start) /\ key.start[1] # 0
                            THEN key.stop[1] - key.start[1]
                            ELSE key.stop[1]
                     r2 == limit(r1.value[1], lim)
                 IN IF r2.status # "ok" THEN Raise(self, r2.status)
                    ELSE Ok(self, r2.value[1])
getitem(self, key) ==
    IF ~key.isslice THEN Raise(self, "TypeError")
    ELSE IF ~IsNone(key.step) THEN Raise(self, "ValueError")
    ELSE LET r1 == IF ~IsNone(key.start) THEN offset(self, key.start[1])
                   ELSE Ok(self, self)
         IN IF r1.status # "ok" THEN Raise(self, r1.status)
            ELSE IF IsNone(key.stop) THEN Ok(self, r1.value[1])
            ELSE LET lim == IF ~IsNone(key.start) /\ key.start[1] # 0
                            THEN key.stop[1] - key.start[1]
                            ELSE key.stop[1]
                     r2 == limit(r1.value[1], lim)
                 IN IF r2.status # "ok" THEN Raise(self, r2.status)
                    ELSE Ok(self, r2.value[1])

-----------------------------------------------------------------------------
(* Join: the struct, its subclasses and its construction check *)

JoinTypes == {"INNER", "LEFT", "RIGHT", "FULL", "CROSS"}

\* Join.__post_init__ runs when the struct is constructed; join_type is the
\* __join_type__ of the class (Join, LeftJoin, RightJoin, FullJoin, CrossJoin)
Join(join_type, to, on, using) ==
    IF TruthyQ(on) /\ TruthyStr(using) THEN Raise(None, "ValueError")
    ELSE IF ~TruthyQ(on) /\ ~TruthyStr(using) THEN Raise(None, "ValueError")
    ELSE Ok(None, [kind |-> "Join", join_type |-> join_type, to |-> to,
                   on |-> on, using |-> using])

-----------------------------------------------------------------------------
(* Rendered text *)

NoValue == PyValue("", 0, "", <<>>)
Lit(s) == [ph |-> 0, s |-> s, v |-> NoValue]
NL == Lit("\n")

\* f"${len(values)}", read after the append: the number of the placeholder;
\* placeholder_no_zero_based is the variant that counts from 0
placeholder_no_zero_based(values) == Len(values) - 1
placeholder_no(values) == Len(values)

\* the token "$N"; it remembers the value its leaf bound
Dollar(values, value) == [ph |-> placeholder_no(values), s |-> "$", v |-> value]

\* textwrap.indent(text, "  "): the prefix goes before every line that is
\* not empty
\* the tokens lo..hi of the indented text, computed by halving the range; a
\* token starts a line when it is the first or follows a line break
RECURSIVE indent_from(_, _, _)
indent_from(text, lo, hi) ==
    IF lo > hi THEN <<>>
    ELSE IF lo = hi
    THEN IF text[lo] # NL /\ (lo = 1 \/ text[lo - 1] = NL)
         THEN <<Lit("  "), text[lo]>>
         ELSE <<text[lo]>>
    ELSE The({ indent_from(text, lo, mid) \o indent_from(text, mid + 1, hi) :
        mid \in {(lo + hi) \div 2} })

indent(text) == indent_from(text, 1, Len(text))

\* sep.join(parts), the separator given as its tokens
RECURSIVE join(_, _)
join(sep, parts) ==
    IF parts = <<>> THEN <<>>
    ELSE IF Len(parts) = 1 THEN parts[1]
    ELSE parts[1] \o sep \o join(sep, Tail(parts))

-----------------------------------------------------------------------------
(* The accumulator.  A render function is called with values = None or    *)
(* with a list; it appends to the list in place.  Its outcome gives the   *)
(* text, the list it returns ("values") and what the caller's own list    *)
(* holds after the call ("given"), also when the call raises.             *)

\* values = [] if values is None else values; values_or_new_falsy is the
\* variant `values or []`, values_or_new_stale the variant whose new list
\* is the list of the previous render, values_or_new_default the variant of
\* a default argument `values=[]`, one list for every call given none
values_or_new_falsy(given) ==
    IF IsNone(given) \/ given[1] = <<>> THEN [list |-> <<>>, shared |-> FALSE]
    ELSE [list |-> given[1], shared |-> TRUE]
values_or_new_stale(given) ==
    IF IsNone(given)
    THEN [list |-> IF log # <<>> THEN log[Len(log)].values ELSE <<>>,
          shared |-> FALSE]
    ELSE [list |-> given[1], shared |-> TRUE]
values_or_new_default(given) ==
    IF IsNone(given) THEN [list |-> acc, shared |-> TRUE]
    ELSE [list |-> given[1], shared |-> TRUE]
values_or_new(given) ==
    IF IsNone(given) THEN [list |-> <<>>, shared |-> FALSE]
    ELSE [list |-> given[1], shared |-> TRUE]

\* the outcome of a function body: status, text, the list it worked on
Done(text, values) == [status |-> "ok", text |-> text, values |-> values]
Fail(exc, values) == [status |-> exc, text |-> <<>>, values |-> values]

\* Return_restoring is the variant in which a body that fails leaves the
\* caller's list as it was given
Return_restoring(given, e, body) ==
    [status |-> body.status, text |-> body.text, values |-> body.values,
     given |-> IF e.shared /\ body.status = "ok" THEN Some(body.values)
               ELSE given]
Return(given, e, body) ==
    [status |-> body.status, text |-> body.text, values |-> body.values,
     given |-> IF e.shared THEN Some(body.values) ELSE given]

-----------------------------------------------------------------------------
(* _split_lookup *)

lookups == {"contains", "startswith", "endswith", "range", "in", "isnull",
            "gte", "lte", "gt", "lt"}

\* lookup.split("__") on a key given as its pieces
RECURSIVE split_from(_, _, _)
split_from(key, i, part) ==
    IF i > Len(key) THEN <<part>>
    ELSE IF key[i] = "__" THEN <<part>> \o split_from(key, i + 1, "")
    ELSE split_from(key, i + 1, key[i])

split(key) == split_from(key, 1, "")

\* _split_lookup_greedy is the variant that takes the second of two
\* segments for a lookup whatever it is
_split_lookup_greedy(key) ==
    LET parts == split(key)
        T(table, column, lookup) ==
            [status |-> "ok", table |-> table, column |-> column, lookup |-> lookup]
    IN IF Len(parts) = 1 THEN T("", parts[1], "")
       ELSE IF Len(parts) = 2 THEN T("", parts[1], parts[2])
       ELSE IF Len(parts) = 3 THEN T(parts[1], parts[2], parts[3])
       ELSE [status |-> ValueError("Invalid lookup"),
             table |-> "", column |-> "", lookup |-> ""]

_split_lookup(key) ==
    LET parts == split(key)
        T(table, column, lookup) ==
            [status |-> "ok", table |-> table, column |-> column, lookup |-> lookup]
    IN IF Len(parts) = 1 THEN T("", parts[1], "")
       ELSE IF Len(parts) = 2 /\ parts[2] \in lookups THEN T("", parts[1], parts[2])
       ELSE IF Len(parts) = 2 THEN T(parts[1], parts[2], "")
       ELSE IF Len(parts) = 3 THEN T(parts[1], parts[2], parts[3])
       ELSE [status |-> ValueError("Invalid lookup"),
             table |-> "", column |-> "", lookup |-> ""]

-----------------------------------------------------------------------------
(* Rendering *)

\* model.tablename(): the qualified name "<schema>.<table>"
tablename(model) == <<Lit(model.schema \o "." \o model.name)>>

\* Python truthiness of a plain value; Truthy_strict is the variant that
\* tests "value is not None"
Truthy_strict(v) == v.kind # "NoneType"

Truthy(v) ==
    CASE v.kind \in {"bool", "int", "float"} -> v.n # 0
      [] v.kind = "str" -> v.s # ""
      [] v.kind \in {"list", "tuple", "set", "dict"} -> v.items # <<>>
      [] v.kind = "NoneType" -> FALSE
      [] OTHER -> TRUE

\* the array type of an "in" collection, from its first element; bool is a
\* subclass of int and datetime is matched before date; in_type_date_first
\* is the variant that matches date, which a datetime is, before datetime
in_type_date_first(item) ==
    CASE item.kind \in {"int", "bool"} -> "int"
      [] item.kind = "str" -> "text"
      [] item.kind = "float" -> "float"
      [] item.kind \in {"date", "datetime"} -> "date"
      [] OTHER -> ""

in_type(item) ==
    CASE item.kind \in {"int", "bool"} -> "int"
      [] item.kind = "str" -> "text"
      [] item.kind = "float" -> "float"
      [] item.kind = "datetime" -> "timestamptz"
      [] item.kind = "date" -> "date"
      [] OTHER -> ""

RECURSIVE Q_render(_, _), Q_render_args(_, _, _, _), Q_render_kwargs(_, _, _, _),
          placeholder(_, _), render_lookup(_, _, _, _),
          Join_render(_, _, _), Query_sql(_, _), Query_sources(_, _, _, _),
          Query_conditions(_, _, _, _)

\* "(\n" + indent(subquery, "  ") + "\n)"
Parenthesized(text) == <<Lit("("), NL>> \o indent(text) \o <<NL, Lit(")")>>

\* Q._render.placeholder(value), values being the list of the enclosing call;
\* placeholder_binds_exp is the variant that binds an expression as a value,
\* placeholder_own_list the one that renders a sub-query with a list of its
\* own
placeholder_own_list(value, values) ==
    CASE value.kind = "Query" ->
           The({
              IF r.status # "ok" THEN Fail(r.status, values)
              ELSE Done(Parenthesized(r.text), values) :
        r \in {Query_sql(value, None)} })
      [] value.kind = "Exp" -> Done(<<Lit(value.expression)>>, values)
      [] OTHER ->
           The({
              Done(<<Dollar(appended, value)>>, appended) :
        appended \in {Append(values, value)} })

placeholder_binds_exp(value, values) ==
    CASE value.kind = "Query" ->
           The({
              IF r.status # "ok" THEN Fail(r.status, r.given[1])
              ELSE Done(Parenthesized(r.text), r.given[1]) :
        r \in {Query_sql(value, Some(values))} })
      [] OTHER ->
           The({
              Done(<<Dollar(appended, value)>>, appended) :
        appended \in {Append(values, value)} })

placeholder(value, values) ==
    CASE value.kind = "Query" ->
           The({
              IF r.status # "ok" THEN Fail(r.status, r.given[1])
              ELSE Done(Parenthesized(r.text), r.given[1]) :
        r \in {Query_sql(value, Some(values))} })
      [] value.kind = "Exp" -> Done(<<Lit(value.expression)>>, values)
      [] OTHER ->
           The({
              Done(<<Dollar(appended, value)>>, appended) :
        appended \in {Append(values, value)} })

\* one keyword entry of Q._render, the column already rendered
render_lookup(column, lookup, value, values) ==
    LET One(before, after) ==
            The({
               IF p.status # "ok" THEN p
               ELSE Done(column \o before \o p.text \o after, p.values) :
        p \in {placeholder(value, values)} })
    IN CASE lookup = "" -> One(<<Lit(" = ")>>, <<>>)
         [] lookup = "contains" ->
              One(<<Lit(" LIKE '%' || ")>>, <<Lit(" || '%'")>>)
         [] lookup = "startswith" -> One(<<Lit(" LIKE ")>>, <<Lit(" || '%'")>>)
         [] lookup = "endswith" -> One(<<Lit(" LIKE '%' || ")>>, <<>>)
         [] lookup = "range" ->
              \* start, end = value: a value that is not iterable gives a
              \* TypeError; a str unpacks to its characters (the inputs hold
              \* no str of length 2)
              IF value.kind = "str" /\ Len(value.s) # 2
              THEN Fail(ValueError(IF Len(value.s) > 2
                                   THEN "too many values to unpack"
                                   ELSE "not enough values to unpack"), values)
              ELSE IF value.kind \notin {"list", "tuple", "set", "dict"}
              THEN Fail("TypeError", values)
              ELSE IF Len(value.items) # 2
              THEN Fail(ValueError(IF Len(value.items) > 2
                                   THEN "too many values to unpack"
                                   ELSE "not enough values to unpack"), values)
              ELSE The({
                      IF s.status # "ok" THEN s
                      ELSE The({
                              IF e.status # "ok" THEN e
                              ELSE Done(column \o <<Lit(" BETWEEN ")>> \o s.text
                                        \o <<Lit(" AND ")>> \o e.text, e.values) :
        e \in {placeholder(value.items[2], s.values)} }) :
        s \in {placeholder(value.items[1], values)} })
         [] lookup = "in" ->
              IF value.kind = "Query" THEN One(<<Lit(" IN ")>>, <<>>)
              ELSE IF value.kind \notin {"list", "tuple", "set"}
              THEN Fail(ValueError("Unsupported value for 'in' lookup"), values)
              ELSE IF value.items = <<>> THEN Fail("IndexError", values)
              ELSE IF in_type(value.items[1]) = ""
              THEN Fail(ValueError("Unsupported value for 'in' lookup"), values)
              ELSE One(<<Lit(" = any(")>>,
                       <<Lit("::"), Lit(in_type(value.items[1])), Lit("[])")>>)
         [] lookup = "isnull" ->
              IF Truthy(value) THEN Done(column \o <<Lit(" IS NULL")>>, values)
              ELSE Done(column \o <<Lit(" IS NOT NULL")>>, values)
         [] lookup = "gte" -> One(<<Lit(" >= ")>>, <<>>)
         [] lookup = "lte" -> One(<<Lit(" <= ")>>, <<>>)
         [] lookup = "gt" -> One(<<Lit(" > ")>>, <<>>)
         [] lookup = "lt" -> One(<<Lit(" < ")>>, <<>>)
         [] OTHER -> Fail(ValueError("Unsupported lookup"), values)

\* Q_render_args_right_first is the variant that renders the right operand
\* of OR and AND before the left one
Q_render_args_right_first(self, i, values, where_clauses) ==
    IF i > Len(self.args) THEN Q_render_kwargs(self, 1, values, where_clauses)
    ELSE LET arg == self.args[i]
         IN IF arg.op \in {"OR", "AND"}
            THEN The({
                    IF right.status # "ok" THEN Fail(right.status, right.given[1])
                    ELSE The({
                            IF left.status # "ok"
                            THEN Fail(left.status, left.given[1])
                            ELSE Q_render_args(self, i + 1, left.given[1],
                                   Append(where_clauses,
                                          <<Lit("(")>> \o left.text
                                          \o <<Lit(" "), Lit(arg.op), Lit(" ")>>
                                          \o right.text \o <<Lit(")")>>)) :
        left \in {Q_render(arg.qs[1], right.given)} }) :
        right \in {Q_render(arg.qs[2], Some(values))} })
            ELSE IF arg.op = "NOT"
            THEN The({
                    IF r.status # "ok" THEN Fail(r.status, r.given[1])
                    ELSE Q_render_args(self, i + 1, r.given[1],
                           Append(where_clauses,
                                  <<Lit("NOT (")>> \o r.text \o <<Lit(")")>>)) :
        r \in {Q_render(arg.qs[1], Some(values))} })
            ELSE Fail(ValueError("Invalid argument"), values)
\* the loop over self.args, from entry i on
Q_render_args(self, i, values, where_clauses) ==
    IF i > Len(self.args) THEN Q_render_kwargs(self, 1, values, where_clauses)
    ELSE LET arg == self.args[i]
         IN IF arg.op \in {"OR", "AND"}
            THEN The({
                    IF left.status # "ok" THEN Fail(left.status, left.given[1])
                    ELSE The({
                            IF right.status # "ok"
                            THEN Fail(right.status, right.given[1])
                            ELSE Q_render_args(self, i + 1, right.given[1],
                                   Append(where_clauses,
                                          <<Lit("(")>> \o left.text
                                          \o <<Lit(" "), Lit(arg.op), Lit(" ")>>
                                          \o right.text \o <<Lit(")")>>)) :
        right \in {Q_render(arg.qs[2], left.given)} }) :
        left \in {Q_render(arg.qs[1], Some(values))} })
            ELSE IF arg.op = "NOT"
            THEN The({
                    IF r.status # "ok" THEN Fail(r.status, r.given[1])
                    ELSE Q_render_args(self, i + 1, r.given[1],
                           Append(where_clauses,
                                  <<Lit("NOT (")>> \o r.text \o <<Lit(")")>>)) :
        r \in {Q_render(arg.qs[1], Some(values))} })
            ELSE Fail(ValueError("Invalid argument"), values)

\* f'"{table}"."{column}"' or f'"{column}"'
column_ref(table, column) ==
    IF table # ""
    THEN <<Lit("\""), Lit(table), Lit("\".\""), Lit(column), Lit("\"")>>
    ELSE <<Lit("\""), Lit(column), Lit("\"")>>

\* the loop over self.kwargs.items(), from entry i on
Q_render_kwargs(self, i, values, where_clauses) ==
    IF i > Len(self.kwargs)
    THEN Done(join(<<Lit(" AND ")>>, where_clauses), values)
    ELSE The({
            IF sp.status # "ok" THEN Fail(sp.status, values)
            ELSE The({
                    IF r.status # "ok" THEN r
                    ELSE Q_render_kwargs(self, i + 1, r.values,
                                         Append(where_clauses, r.text)) :
        r \in {render_lookup(column_ref(sp.table, sp.column), sp.lookup,
                                    self.kwargs[i].value, values)} }) :
        sp \in {_split_lookup(self.kwargs[i].key)} })

\* Q._render(values)
Q_render(self, given) ==
    The({
       Return(given, e, Q_render_args(self, 1, e.list, <<>>)) :
        e \in {values_or_new(given)} })

\* the end of Join._render, the source already rendered
Join_condition(self, alias, src, values) ==
    LET head == <<Lit(self.join_type), Lit(" JOIN ")>> \o src
                \o <<Lit(" AS \""), Lit(alias), Lit("\" ")>>
    IN IF TruthyQ(self.on)
       THEN The({
               IF c.status # "ok" THEN Fail(c.status, c.given[1])
               ELSE Done(head \o <<Lit("ON (")>> \o c.text \o <<Lit(")")>>,
                         c.given[1]) :
        c \in {Q_render(self.on[1], Some(values))} })
       ELSE Done(head \o <<Lit(" USING ("), Lit(self.using[1]), Lit(")")>>, values)

\* the match on self.to of Join._render
Join_source(self, alias, values) ==
    CASE self.to.kind = "str" ->
           Join_condition(self, alias, <<Lit(self.to.s)>>, values)
      [] self.to.kind = "Query" ->
           The({
              IF r.status # "ok" THEN Fail(r.status, r.given[1])
              ELSE Join_condition(self, alias, Parenthesized(r.text), r.given[1]) :
        r \in {Query_sql(self.to, Some(values))} })
      [] OTHER -> Fail(ValueError("Invalid source for join"), values)

\* Join._render(alias, values)
Join_render(self, alias, given) ==
    The({
       Return(given, e, Join_source(self, alias, e.list)) :
        e \in {values_or_new(given)} })

\* the SELECT list: the loop over (self.selections or ("*",))
RECURSIVE Query_selections(_, _, _)
Query_selections(sels, i, selections) ==
    IF i > Len(sels) THEN Done(join(<<Lit(", ")>>, selections), <<>>)
    ELSE LET selection == sels[i]
         IN CASE selection.kind = "str" ->
                   Query_selections(sels, i + 1,
                       Append(selections, <<Lit(selection.column)>>))
              [] selection.kind = "tuple" ->
                   Query_selections(sels, i + 1,
                       Append(selections,
                              <<Lit(selection.column), Lit(" \""),
                                Lit(selection.alias), Lit("\"")>>))
              [] OTHER -> Fail(ValueError("Invalid selection"), <<>>)

\* the SELECT keyword, by self._distinct
select_keyword(self) ==
    IF IsNone(self._distinct) THEN <<Lit("SELECT ")>>
    ELSE IF self._distinct[1] = "" THEN <<Lit("SELECT DISTINCT ")>>
    ELSE <<Lit("SELECT DISTINCT ON("), Lit(self._distinct[1]), Lit(") ")>>

\* f"\nFROM {', '.join(tables)}{'\n'.join(subqueries + joins)}";
\* from_clause_joins_first is the variant that writes joins + subqueries
from_clause_joins_first(tables, joins, subqueries) ==
    <<NL, Lit("FROM ")>> \o join(<<Lit(", ")>>, tables)
    \o join(<<NL>>, joins \o subqueries)

from_clause(tables, joins, subqueries) ==
    <<NL, Lit("FROM ")>> \o join(<<Lit(", ")>>, tables)
    \o join(<<NL>>, subqueries \o joins)

\* the loop over self.sources, from entry i on; parts holds the three lists
\* tables, joins and subqueries; Query_sources_lenient is the variant that
\* leaves out a nested query that fails
Query_sources_lenient(self, i, values, parts) ==
    IF i > Len(self.sources)
    THEN Done(from_clause(parts.tables, parts.joins, parts.subqueries), values)
    ELSE LET alias == self.sources[i][1]
             src == self.sources[i][2]
             As == <<Lit(" AS \""), Lit(alias), Lit("\"")>>
         IN CASE src.kind = "Join" ->
                   The({
                      IF j.status # "ok" THEN Fail(j.status, j.given[1])
                      ELSE Query_sources(self, i + 1, j.given[1],
                             [parts EXCEPT !.joins =
                                 Append(@, indent(<<NL>> \o j.text))]) :
        j \in {Join_render(src, alias, Some(values))} })
              [] src.kind = "Query" ->
                   The({
                      IF r.status # "ok"
                      THEN Query_sources(self, i + 1, r.given[1], parts)
                      ELSE Query_sources(self, i + 1, r.given[1],
                             [parts EXCEPT !.subqueries =
                                 Append(@, Parenthesized(r.text) \o As)]) :
        r \in {Query_sql(src, Some(values))} })
              [] src.kind = "str" ->
                   Query_sources(self, i + 1, values,
                       [parts EXCEPT !.tables = Append(@, <<Lit(src.s)>> \o As)])
              [] OTHER ->
                   Query_sources(self, i + 1, values,
                       [parts EXCEPT !.tables = Append(@, tablename(src) \o As)])

Query_sources(self, i, values, parts) ==
    IF i > Len(self.sources)
    THEN Done(from_clause(parts.tables, parts.joins, parts.subqueries), values)
    ELSE LET alias == self.sources[i][1]
             src == self.sources[i][2]
             As == <<Lit(" AS \""), Lit(alias), Lit("\"")>>
         IN CASE src.kind = "Join" ->
                   The({
                      IF j.status # "ok" THEN Fail(j.status, j.given[1])
                      ELSE Query_sources(self, i + 1, j.given[1],
                             [parts EXCEPT !.joins =
                                 Append(@, indent(<<NL>> \o j.text))]) :
        j \in {Join_render(src, alias, Some(values))} })
              [] src.kind = "Query" ->
                   The({
                      IF r.status # "ok" THEN Fail(r.status, r.given[1])
                      ELSE Query_sources(self, i + 1, r.given[1],
                             [parts EXCEPT !.subqueries =
                                 Append(@, Parenthesized(r.text) \o As)]) :
        r \in {Query_sql(src, Some(values))} })
              [] src.kind = "str" ->
                   Query_sources(self, i + 1, values,
                       [parts EXCEPT !.tables = Append(@, <<Lit(src.s)>> \o As)])
              [] OTHER ->
                   Query_sources(self, i + 1, values,
                       [parts EXCEPT !.tables = Append(@, tablename(src) \o As)])

\* the generator over self.conditions, from entry i on
Query_conditions(self, i, values, clauses) ==
    IF i > Len(self.conditions)
    THEN Done(join(<<Lit(" AND ")>>, clauses), values)
    ELSE The({
            IF c.status # "ok" THEN Fail(c.status, c.given[1])
            ELSE Query_conditions(self, i + 1, c.given[1],
                                  Append(clauses, c.text)) :
        c \in {Q_render(self.conditions[i], Some(values))} })

\* the ORDER BY entries: a leading "-" gives DESC
RECURSIVE Query_orders(_)
Query_orders(orderbys) ==
    IF orderbys = <<>> THEN <<>>
    ELSE LET orderby == Head(orderbys)
         IN <<IF Head(orderby) = "-"
              THEN <<Lit(orderby[2]), Lit(" DESC")>>
              ELSE <<Lit(orderby[1])>>>> \o Query_orders(Tail(orderbys))

RECURSIVE Lits(_)
Lits(strings) ==
    IF strings = <<>> THEN <<>>
    ELSE <<<<Lit(Head(strings))>>>> \o Lits(Tail(strings))

\* LIMIT then OFFSET: each appends its integer and emits its number;
\* limit_offset_swapped is the variant that appends the offset first
limit_offset_swapped(self, values) ==
    LET v1 == IF IsNone(self._offset) THEN values
              ELSE Append(values, IntV(self._offset[1]))
        offset_clause == IF IsNone(self._offset) THEN <<>>
                         ELSE <<NL, Lit("OFFSET "), Dollar(v1, IntV(self._offset[1]))>>
        v2 == IF IsNone(self._limit) THEN v1
              ELSE Append(v1, IntV(self._limit[1]))
        limit_clause == IF IsNone(self._limit) THEN <<>>
                        ELSE <<NL, Lit("LIMIT "), Dollar(v2, IntV(self._limit[1]))>>
    IN Done(limit_clause \o offset_clause, v2)
limit_offset(self, values) ==
    LET v1 == IF IsNone(self._limit) THEN values
              ELSE Append(values, IntV(self._limit[1]))
        limit_clause == IF IsNone(self._limit) THEN <<>>
                        ELSE <<NL, Lit("LIMIT "), Dollar(v1, IntV(self._limit[1]))>>
        v2 == IF IsNone(self._offset) THEN v1
              ELSE Append(v1, IntV(self._offset[1]))
        offset_clause == IF IsNone(self._offset) THEN <<>>
                         ELSE <<NL, Lit("OFFSET "), Dollar(v2, IntV(self._offset[1]))>>
    IN Done(limit_clause \o offset_clause, v2)

\* the GROUP BY and ORDER BY clauses
groupby_clause(self) ==
    IF self.groupbys = <<>> THEN <<>>
    ELSE <<NL, Lit("GROUP BY ")>> \o join(<<Lit(", ")>>, Lits(self.groupbys))

orderby_clause(self) ==
    IF self.orderbys = <<>> THEN <<>>
    ELSE <<NL, Lit("ORDER BY ")>> \o join(<<Lit(", ")>>, Query_orders(self.orderbys))

\* the body of Query.sql, values being the list it works on
Query_clauses(self, values) ==
    The({
      IF sel.status # "ok" THEN Fail(sel.status, values)
      ELSE The({
        IF from.status # "ok" THEN from
        ELSE The({
          IF wh.status # "ok" THEN wh
          ELSE The({
            Done(select_keyword(self) \o sel.text \o from.text
                 \o (IF self.conditions = <<>> THEN <<>>
                     ELSE <<NL, Lit("WHERE ")>> \o wh.text)
                 \o groupby_clause(self) \o orderby_clause(self) \o lo.text,
                 lo.values) :
        lo \in {limit_offset(self, wh.values)} }) :
        wh \in {Query_conditions(self, 1, from.values, <<>>)} }) :
        from \in {Query_sources(self, 1, values,
                  [tables |-> <<>>, joins |-> <<>>, subqueries |-> <<>>])} }) :
        sel \in {Query_selections(IF self.selections = <<>> THEN <<Col("*")>>
                          ELSE self.selections, 1, <<>>)} })

\* Query.sql(values)
Query_sql(self, given) ==
    The({
       Return(given, e, Query_clauses(self, e.list)) :
        e \in {values_or_new(given)} })

-----------------------------------------------------------------------------
(* With, QueryUnion and RecursiveWith *)

\* def union(*queries, all=False); union_unchecked is the variant without
\* the check
union_unchecked(queries, all) ==
    Ok(None, [kind |-> "QueryUnion", queries |-> queries, all |-> all])
union(queries, all) ==
    IF Len(queries) < 2 THEN Raise(None, "ValueError")
    ELSE Ok(None, [kind |-> "QueryUnion", queries |-> queries, all |-> all])

\* def cte(main, **ctes)
cte(main, ctes) ==
    IF ctes = <<>> THEN Raise(None, "ValueError")
    ELSE Ok(None, [kind |-> "With", main |-> main, ctes |-> ctes])

\* def recursive_cte(main, **kwargs)
recursive_cte(main, kwargs) ==
    IF Len(kwargs) # 1 THEN Raise(None, "ValueError")
    ELSE Ok(None, [kind |-> "RecursiveWith", main |-> main,
                   base |-> kwargs[1][2], alias |-> kwargs[1][1]])

\* the loop of QueryUnion.sql over self.queries, from member i on;
\* QueryUnion_queries_restart is the variant that renders each member into
\* a list of its own
RECURSIVE QueryUnion_queries(_, _, _, _)
QueryUnion_queries_restart(self, i, values, queries) ==
    IF i > Len(self.queries)
    THEN Done(join(<<NL, Lit(IF self.all THEN "UNION ALL" ELSE "UNION"), NL>>,
                   queries), values)
    ELSE The({
            IF r.status # "ok" THEN Fail(r.status, values)
            ELSE QueryUnion_queries(self, i + 1, values \o r.values,
                                    Append(queries, indent(r.text))) :
        r \in {Query_sql(self.queries[i], None)} })
QueryUnion_queries(self, i, values, queries) ==
    IF i > Len(self.queries)
    THEN Done(join(<<NL, Lit(IF self.all THEN "UNION ALL" ELSE "UNION"), NL>>,
                   queries), values)
    ELSE The({
            IF r.status # "ok" THEN Fail(r.status, r.given[1])
            ELSE QueryUnion_queries(self, i + 1, r.given[1],
                                    Append(queries, indent(r.text))) :
        r \in {Query_sql(self.queries[i], Some(values))} })

\* QueryUnion.sql(values)
QueryUnion_sql(self, given) ==
    The({
       Return(given, e, QueryUnion_queries(self, 1, e.list, <<>>)) :
        e \in {values_or_new(given)} })

\* the loop of With.sql over self.ctes, from entry i on
RECURSIVE With_ctes(_, _, _, _)
With_ctes(self, i, values, ctes) ==
    IF i > Len(self.ctes) THEN Done(join(<<Lit(","), NL>>, ctes), values)
    ELSE The({
            IF r.status # "ok" THEN Fail(r.status, r.given[1])
            ELSE With_ctes(self, i + 1, r.given[1],
                   Append(ctes, <<Lit("\""), Lit(self.ctes[i][1]), Lit("\" AS ("), NL>>
                                \o indent(r.text) \o <<NL, Lit(")")>>)) :
        r \in {Query_sql(self.ctes[i][2], Some(values))} })

\* With.sql(values); With_sql_main_first is the variant that renders the
\* main query before the CTEs
With_sql_main_first(self, given) ==
    The({
       Return(given, e,
         The({
            IF m.status # "ok" THEN Fail(m.status, m.given[1])
            ELSE The({
                    IF c.status # "ok" THEN c
                    ELSE Done(<<Lit("WITH ")>> \o c.text \o <<NL>> \o m.text,
                              c.values) :
        c \in {With_ctes(self, 1, m.given[1], <<>>)} }) :
        m \in {Query_sql(self.main, Some(e.list))} })) :
        e \in {values_or_new(given)} })
With_sql(self, given) ==
    The({
       Return(given, e,
         The({
            IF c.status # "ok" THEN c
            ELSE The({
                    IF m.status # "ok" THEN Fail(m.status, m.given[1])
                    ELSE Done(<<Lit("WITH ")>> \o c.text \o <<NL>> \o m.text,
                              m.given[1]) :
        m \in {Query_sql(self.main, Some(c.values))} }) :
        c \in {With_ctes(self, 1, e.list, <<>>)} })) :
        e \in {values_or_new(given)} })

\* RecursiveWith.sql(values)
RecursiveWith_sql(self, given) ==
    The({
       Return(given, e,
         The({
            IF b.status # "ok" THEN Fail(b.status, b.given[1])
            ELSE The({
                    IF m.status # "ok" THEN Fail(m.status, m.given[1])
                    ELSE Done(<<Lit("WITH RECURSIVE \""), Lit(self.alias),
                                Lit("\" AS ("), NL>>
                              \o indent(b.text) \o <<NL, Lit(")"), NL>> \o m.text,
                              m.given[1]) :
        m \in {Query_sql(self.main, b.given)} }) :
        b \in {QueryUnion_sql(self.base, Some(e.list))} })) :
        e \in {values_or_new(given)} })

\* value.sql(values) for any of the four renderable kinds
sql(self, given) ==
    CASE self.kind = "Query" -> Query_sql(self, given)
      [] self.kind = "With" -> With_sql(self, given)
      [] self.kind = "QueryUnion" -> QueryUnion_sql(self, given)
      [] self.kind = "RecursiveWith" -> RecursiveWith_sql(self, given)

-----------------------------------------------------------------------------
(* A render as the steps of a thread.  A render reads the builder value,   *)
(* which no step changes, and works on its list: each leaf it reaches      *)
(* appends its value and then reads the length of the list.                *)

Threads == 1..MaxThreads

RECURSIVE Flat(_)
Flat(seqs) == IF seqs = <<>> THEN <<>> ELSE Head(seqs) \o Flat(Tail(seqs))

\* what one keyword entry of a Q hands to placeholder(), in order
EntryChildren(kw) ==
    LET lookup == _split_lookup(kw.key).lookup
    IN CASE lookup = "isnull" -> <<>>
         [] lookup = "range" ->
              IF kw.value.kind \in {"list", "tuple", "set", "dict"}
              THEN kw.value.items ELSE <<>>
         [] OTHER -> <<kw.value>>

\* the values a render descends into, in the order it reaches them
Children(v) ==
    CASE v.kind = "Query" ->
           Flat([k \in DOMAIN v.sources |->
                    IF v.sources[k][2].kind \in {"Join", "Query"}
                    THEN <<v.sources[k][2]>> ELSE <<>>])
           \o v.conditions
           \o (IF IsNone(v._limit) THEN <<>> ELSE <<IntV(v._limit[1])>>)
           \o (IF IsNone(v._offset) THEN <<>> ELSE <<IntV(v._offset[1])>>)
      [] v.kind = "Join" ->
           (IF v.to.kind = "Query" THEN <<v.to>> ELSE <<>>)
           \o (IF TruthyQ(v.on) THEN <<v.on[1]>> ELSE <<>>)
      [] v.kind = "Q" ->
           Flat([k \in DOMAIN v.args |-> v.args[k].qs])
           \o Flat([k \in DOMAIN v.kwargs |-> EntryChildren(v.kwargs[k])])
      [] v.kind = "With" -> [k \in DOMAIN v.ctes |-> v.ctes[k][2]] \o <<v.main>>
      [] v.kind = "QueryUnion" -> v.queries
      [] v.kind = "RecursiveWith" -> <<v.base, v.main>>
      [] OTHER -> <<>>

\* the leaves of a value in the order a render reaches them: an expression
\* is written into the text, any other plain value is bound
RECURSIVE Leaves(_)
Leaves(v) ==
    IF v.kind \in {"Query", "Join", "Q", "With", "QueryUnion", "RecursiveWith"}
    THEN Flat([k \in DOMAIN Children(v) |-> Leaves(Children(v)[k])])
    ELSE IF v.kind = "Exp" THEN <<>>
    ELSE <<v>>

\* a thread that is not rendering
Idle ==
    [pc |-> "idle", self |-> None, given |-> None, shared |-> FALSE,
     values |-> <<>>, todo |-> <<>>, numbers |-> <<>>, at |-> <<>>,
     render |-> [status |-> "", text |-> <<>>], status |-> "", text |-> <<>>]

\* the list a call works on: the caller's, or its own
ListOf(call) == IF call.shared THEN acc ELSE call.values

\* the text with the number each leaf read in place of its placeholder;
\* text is the render on an empty list, where leaf k has the number k
Renumber(text, numbers) ==
    [k \in DOMAIN text |->
        IF text[k].s = "$" THEN [text[k] EXCEPT !.ph = numbers[text[k].ph]]
        ELSE text[k]]

\* thread t calls self.sql(values): a render that fails stops at the leaf
\* it has reached; the threads are alike and start in the order of their
\* numbers.  render is what the call writes apart from the numbers: the
\* text of the render on an empty list, or the error
Begin(t, self, given) ==
    /\ calls[t].pc = "idle"
    /\ \A u \in Threads : u < t => calls[u].pc # "idle"
    /\ \E e \in {values_or_new(given)}, r \in {sql(self, Some(<<>>))} :
          LET todo == IF r.status = "ok" THEN Leaves(self)
                      ELSE SubSeq(Leaves(self), 1, Len(r.values))
          IN calls' = [calls EXCEPT ![t] =
                 [pc |-> IF todo = <<>> THEN "return" ELSE "append",
                  self |-> Some(self), given |-> given, shared |-> e.shared,
                  values |-> IF e.shared THEN <<>> ELSE e.list,
                  todo |-> todo, numbers |-> <<>>, at |-> <<>>,
                  render |-> [status |-> r.status, text |-> r.text],
                  status |-> "", text |-> <<>>]]
    /\ UNCHANGED <<q, last, nops, acc, log>>

\* values.append(value)
AppendValue(t) ==
    /\ calls[t].pc = "append"
    /\ LET list == Append(ListOf(calls[t]), Head(calls[t].todo))
       IN /\ calls' = [calls EXCEPT ![t].pc = "number",
                                    ![t].at = Append(@, Len(list)),
                                    ![t].values = IF calls[t].shared THEN @ ELSE list]
          /\ acc' = IF calls[t].shared THEN list ELSE acc
    /\ UNCHANGED <<q, last, nops, log>>

\* f"${len(values)}"
ReadLength(t) ==
    /\ calls[t].pc = "number"
    /\ calls' = [calls EXCEPT
                   ![t].numbers = Append(@, placeholder_no(ListOf(calls[t]))),
                   ![t].todo = Tail(@),
                   ![t].pc = IF Tail(calls[t].todo) = <<>> THEN "return"
                             ELSE "append"]
    /\ UNCHANGED <<q, last, nops, acc, log>>

\* the call as it is once it has returned or raised; Finished_never is
\* the variant of a render that does not come back
Finished_never(call, list) == call

Finished(call, list) ==
    [call EXCEPT !.pc = "done",
                 !.status = call.render.status,
                 !.text = IF call.render.status = "ok"
                          THEN Renumber(call.render.text, call.numbers)
                          ELSE <<>>,
                 !.values = list]

\* return query, values (or the raise)
Finish(t) ==
    /\ calls[t].pc = "return"
    /\ calls' = [calls EXCEPT ![t] = Finished(calls[t], ListOf(calls[t]))]
    /\ UNCHANGED <<q, last, nops, acc, log>>

-----------------------------------------------------------------------------
(* The program: a chain of builder calls.  q is rebound to the result of a *)
(* call that succeeds and keeps its value when the call raises.            *)

Call(op, arg, r) ==
    [op |-> op, arg |-> arg, before |-> Some(q), self |-> Some(r.self),
     status |-> r.status, value |-> r.value]

Step(op, arg, r) ==
    /\ q.kind = "Query"
    /\ log = <<>>
    /\ last' = Call(op, arg, r)
    /\ q' = IF r.status = "ok" THEN r.value[1] ELSE q
    /\ nops' = nops + 1
    /\ UNCHANGED <<acc, log, calls>>

\* q = q.source(**sources)
Source(sources) == Step("source", sources, source(q, sources))

\* q = q.source(alias=JoinClass(to, on=on, using=using)): the Join is built
\* first, and a failing construction ends the statement
JoinSource(alias, join_type, to, on, using) ==
    LET j == Join(join_type, to, on, using)
    IN Step("Join", [to |-> to, on |-> on, using |-> using],
            IF j.status # "ok" THEN Raise(q, j.status)
            ELSE source(q, <<<<alias, j.value[1]>>>>))

Select(args, kwargs) ==
    Step("select", [args |-> args, kwargs |-> kwargs], select(q, args, kwargs))

Where(args, kwargs) ==
    Step("where", [args |-> args, kwargs |-> kwargs], where(q, args, kwargs))

GroupBy(groups) == Step("group_by", groups, group_by(q, groups))

OrderBy(orderbys) == Step("order_by", orderbys, order_by(q, orderbys))

Limit(n) == Step("limit", n, limit(q, n))

Offset(n) == Step("offset", n, offset(q, n))

Distinct(on) == Step("distinct", on, distinct(q, on))

GetItem(key) == Step("getitem", key, getitem(q, key))

-----------------------------------------------------------------------------
(* Inputs of the builder chain *)

\* a lookup key is the sequence of its pieces, "__" being a piece of its own
P_USER_ID == <<"p", "__", "user_id">>
U_ID == <<"u", "__", "id">>
ID == <<"id">>

OnUser == Q(<<>>, <<KW(P_USER_ID, Exp("u.id"))>>)
IdIs1 == Q(<<>>, <<KW(ID, IntV(1))>>)

InitQueries ==
    { query(s).value[1] :
        s \in { <<<<"u", Table("user")>>>>,
                <<<<"u", Model("public", "user")>>>> } }

BuildSources ==
    { <<>>,
      <<<<"p", Table("profile")>>>>,
      <<<<"p", Model("public", "profile")>>, <<"o", Table("org")>>>> }

BuildJoinOn == {None, Some(OnUser)}
BuildJoinUsing == {None, Some(""), Some("id")}
BuildSelectArgs == {<<>>, <<Col("u.id")>>}
BuildSelectKwargs == {<<>>, <<AliasCol("n", "count(*)")>>}
BuildWhereArgs == {<<>>, <<Q_invert(IdIs1)>>}
BuildWhereKwargs == {<<>>, <<KW(U_ID, IntV(7))>>}
BuildGroups == {<<"u.org_id">>}
BuildOrders == {<<Desc("u.id")>>, <<Asc("u.id"), Asc("u.name")>>}
BuildInts == {-7, -1, 0, 1, 10}
BuildDistinct == {None, Some(""), Some("name")}
BuildKeys ==
    {Scalar(3)} \cup
    { Slice(a, b, c) : a \in {None, Some(-1), Some(0), Some(5)},
                       b \in {None, Some(3), Some(10)},
                       c \in {None, Some(1), Some(2)} }

InitBuild ==
    /\ q \in InitQueries
    /\ last = [op |-> "query", arg |-> q.sources, before |-> None,
               self |-> None, status |-> "ok", value |-> Some(q)]
    /\ nops = 0
    /\ acc = <<>>
    /\ log = <<>>
    /\ calls = [t \in Threads |-> Idle]

NextBuild ==
    /\ nops < MaxChain
    /\ \/ \E s \in BuildSources : Source(s)
       \/ \E t \in JoinTypes, on \in BuildJoinOn, using \in BuildJoinUsing :
             JoinSource("p", t, Table("profile"), on, using)
       \/ \E a \in BuildSelectArgs, k \in BuildSelectKwargs : Select(a, k)
       \/ \E a \in BuildWhereArgs, k \in BuildWhereKwargs : Where(a, k)
       \/ \E g \in BuildGroups : GroupBy(g)
       \/ \E o \in BuildOrders : OrderBy(o)
       \/ \E n \in BuildInts : Limit(n)
       \/ \E n \in BuildInts : Offset(n)
       \/ \E d \in BuildDistinct : Distinct(d)
       \/ \E k \in BuildKeys : GetItem(k)

SpecBuild == InitBuild /\ [][NextBuild]_vars

-----------------------------------------------------------------------------
(* Composition and rendering *)

\* q = query(alias=q): the query built so far becomes a nested source
Nest(alias) ==
    LET r == query(<<<<alias, q>>>>)
    IN /\ q.kind = "Query"
       /\ log = <<>>
       /\ last' = [op |-> "query", arg |-> <<<<alias, q>>>>, before |-> None,
                   self |-> None, status |-> r.status, value |-> r.value]
       /\ q' = r.value[1]
       /\ nops' = nops + 1
       /\ UNCHANGED <<acc, log, calls>>

Compose(op, arg, r) ==
    /\ log = <<>>
    /\ last' = [op |-> op, arg |-> arg, before |-> None, self |-> None,
                status |-> r.status, value |-> r.value]
    /\ q' = IF r.status = "ok" THEN r.value[1] ELSE q
    /\ UNCHANGED <<nops, acc, log, calls>>

\* q = union(*queries, all=all)
Union(queries, all) ==
    /\ q.kind = "Query"
    /\ Compose("union", queries, union(queries, all))

\* q = cte(main, **ctes)
Cte(main, ctes) ==
    /\ q.kind = "Query"
    /\ Compose("cte", ctes, cte(main, ctes))

\* q = recursive_cte(main, **kwargs), q being the base union
RecursiveCte(main, kwargs) ==
    /\ q.kind = "QueryUnion"
    /\ Compose("recursive_cte", kwargs, recursive_cte(main, kwargs))

\* q.sql() when given is None, q.sql(acc) when given is the caller's list
Sql(given) ==
    /\ Len(log) < MaxRenders
    /\ \E r \in {sql(q, given)} :
          /\ log' = Append(log, [given |-> given, status |-> r.status,
                                 text |-> r.text, values |-> r.values,
                                 after |-> r.given])
          /\ acc' = IF IsNone(given) THEN acc ELSE r.given[1]
    /\ UNCHANGED <<q, last, nops, calls>>

-----------------------------------------------------------------------------
(* Inputs of the rendered trees *)

U_NAME_STARTSWITH == <<"u", "__", "name", "__", "startswith">>
U_ID_RANGE == <<"u", "__", "id", "__", "range">>
U_ID_IN == <<"u", "__", "id", "__", "in">>
P_MANAGER_ID == <<"p", "__", "manager_id">>
J_ORG_ID == <<"j", "__", "org_id">>

\* query(p="profile").where(p__manager_id=520)
DirectReports ==
    where(query(<<<<"p", Table("profile")>>>>).value[1],
          <<>>, <<KW(P_MANAGER_ID, IntV(520))>>).value[1]

\* query(t="tree").where(id=Exp("t.link"), t__depth__lt=9)
T_DEPTH_LT == <<"t", "__", "depth", "__", "lt">>

MainQuery ==
    where(query(<<<<"t", Table("tree")>>>>).value[1],
          <<>>, <<KW(ID, Exp("t.link")), KW(T_DEPTH_LT, IntV(9))>>).value[1]

JohnOrRange ==
    Q_or(Q(<<>>, <<KW(U_NAME_STARTSWITH, StrV("John"))>>),
         Q(<<>>, <<KW(U_ID_RANGE, ListV(<<IntV(1), IntV(100)>>))>>))

WithOrg ==
    query(<<<<"u", Model("public", "user")>>,
            <<"j", Join("INNER", DirectReports,
                        Some(Q(<<>>, <<KW(J_ORG_ID, IntV(3))>>)),
                        None).value[1]>>>>).value[1]

RenderInit ==
    { query(<<<<"u", Table("user")>>>>).value[1],
      WithOrg,
      where(WithOrg, <<>>, <<KW(ID, IntV(101))>>).value[1] }

RenderWheres ==
    { [args |-> <<JohnOrRange>>, kwargs |-> <<>>],
      [args |-> <<>>, kwargs |-> <<KW(U_ID_IN, DirectReports)>>] }

Init ==
    /\ q \in RenderInit
    /\ last = [op |-> "query", arg |-> q.sources, before |-> None,
               self |-> None, status |-> "ok", value |-> Some(q)]
    /\ nops = 0
    /\ acc = <<>>
    /\ log = <<>>
    /\ calls = [t \in Threads |-> Idle]

Next ==
    \/ /\ nops < MaxOps
       /\ \/ \E w \in RenderWheres : Where(w.args, w.kwargs)
          \/ Limit(10)
          \/ Offset(5)
          \/ Nest("s")
    \/ \E all \in BOOLEAN : Union(<<DirectReports, q>>, all)
    \/ Cte(MainQuery, <<<<"dr", DirectReports>>, <<"c", q>>>>)
    \/ RecursiveCte(MainQuery, <<<<"tree", q>>>>)
    \/ \E given \in {None, Some(acc)} : Sql(given)

Spec == Init /\ [][Next]_vars

-----------------------------------------------------------------------------
(* Joins: a query gets join sources and is rendered *)

PublicProfile == Model("public", "profile")

JoinTargets == {Table("public.profile"), PublicProfile, DirectReports}

NextJoin ==
    \/ /\ nops < MaxJoins
       /\ \E t \in JoinTypes, to \in JoinTargets,
             on \in BuildJoinOn, using \in BuildJoinUsing :
             JoinSource("p", t, to, on, using)
    \/ Sql(None)

SpecJoin == InitBuild /\ [][NextJoin]_vars

-----------------------------------------------------------------------------
(* Constructors: query, union, cte and recursive_cte called with any       *)
(* number of arguments, between builder calls                              *)

\* q = query(**sources)
NewQuery(sources) ==
    LET r == query(sources)
    IN /\ q.kind = "Query"
       /\ log = <<>>
       /\ last' = [op |-> "query", arg |-> sources, before |-> None,
                   self |-> None, status |-> r.status, value |-> r.value]
       /\ q' = IF r.status = "ok" THEN r.value[1] ELSE q
       /\ nops' = nops + 1
       /\ UNCHANGED <<acc, log, calls>>

ComposeSources == {<<>>, <<<<"u", Table("user")>>>>, <<<<"s", q>>>>}
ComposeMembers == {<<>>, <<q>>, <<DirectReports, q>>, <<q, DirectReports, q>>}
ComposeCtes == {<<>>, <<<<"dr", DirectReports>>>>,
                <<<<"dr", DirectReports>>, <<"c", q>>>>}
ComposeBases == {<<>>, <<<<"tree", q>>>>, <<<<"a", q>>, <<"b", q>>>>}

NextCompose ==
    \/ /\ nops < MaxChain
       /\ \/ \E s \in ComposeSources : NewQuery(s)
          \/ \E s \in BuildSources : Source(s)
          \/ \E a \in BuildWhereArgs, k \in BuildWhereKwargs : Where(a, k)
          \/ Limit(10)
    \/ \E qs \in ComposeMembers, all \in BOOLEAN : Union(qs, all)
    \/ \E ctes \in ComposeCtes : Cte(MainQuery, ctes)
    \/ \E base \in ComposeBases : RecursiveCte(MainQuery, base)

SpecCompose == InitBuild /\ [][NextCompose]_vars

-----------------------------------------------------------------------------
(* Conditions: query(u="user") gets conditions and selections of every     *)
(* shape and is rendered                                                   *)

\* query(o="org").where(o__owner__in=DirectReports, o__size__gt=5)
Deep ==
    where(query(<<<<"o", Table("org")>>>>).value[1], <<>>,
          <<KW(<<"o", "__", "owner", "__", "in">>, DirectReports),
            KW(<<"o", "__", "size", "__", "gt">>, IntV(5))>>).value[1]

\* keys of one to four segments; u__id__ ends in an empty segment
CondKeys ==
    {<<"id">>, <<"u", "__", "id">>, <<"id", "__", "qte">>,
     <<"u", "__", "id", "__", "">>,
     <<"u", "__", "id", "__", "invalid", "__", "lookup">>}
    \cup { <<"id", "__", l>> : l \in {"contains", "in", "isnull"} }
    \cup { <<"u", "__", "id", "__", l>> : l \in lookups \cup {"qte"} }

CondValues ==
    {IntV(101), IntV(0), StrV("John"), StrV(""), BoolV(TRUE), BoolV(FALSE),
     NoneV, Exp("t.link"), DirectReports, Deep,
     ListV(<<IntV(1), IntV(100)>>), ListV(<<Exp("t.lo"), IntV(100)>>),
     ListV(<<IntV(1), Exp("t.hi")>>), ListV(<<>>), SetV(<<>>),
     ListV(<<IntV(1), StrV("a"), NoneV>>), ListV(<<StrV("a"), IntV(1)>>),
     TupleV(<<StrV("a"), StrV("b")>>), SetV(<<FloatV(1), FloatV(2)>>),
     ListV(<<BoolV(TRUE), BoolV(FALSE)>>),
     ListV(<<DateV(1), DateV(2)>>), ListV(<<DatetimeV(1), DateV(2)>>),
     ListV(<<NoneV>>), DictV(<<>>), DictV(<<StrV("k")>>)}

CondEntries == { KW(k, v) : k \in CondKeys, v \in CondValues }

\* the entries of the conditions that follow the first
NextEntries ==
    {KW(U_ID, IntV(7)), KW(ID, Exp("t.link")), KW(U_ID_IN, DirectReports),
     KW(<<"id", "__", "isnull">>, BoolV(FALSE))}

\* Q("u.id=1"): a positional entry that is not a combinator tuple
NotCombinator == [op |-> "str", qs |-> <<>>]

CondArgs == {Q(<<NotCombinator>>, <<>>), Q_invert(IdIs1)}

CondSelections ==
    {[args |-> <<OtherSel>>, kwargs |-> <<>>],
     [args |-> <<Col("u.id")>>, kwargs |-> <<AliasCol("n", "count(*)")>>]}

InitCond ==
    /\ q = query(<<<<"u", Table("user")>>>>).value[1]
    /\ last = [op |-> "query", arg |-> q.sources, before |-> None,
               self |-> None, status |-> "ok", value |-> Some(q)]
    /\ nops = 0
    /\ acc = <<>>
    /\ log = <<>>
    /\ calls = [t \in Threads |-> Idle]

NextCond ==
    \/ /\ nops = 0
       /\ \/ \E e \in CondEntries : Where(<<>>, <<e>>)
          \/ \E a \in CondArgs : Where(<<a>>, <<>>)
          \/ \E sel \in CondSelections : Select(sel.args, sel.kwargs)
    \/ /\ 0 < nops /\ nops < MaxConds
       /\ \/ \E e \in NextEntries : Where(<<>>, <<e>>)
          \/ Where(<<Q(<<NotCombinator>>, <<>>)>>, <<>>)
          \/ Select(<<OtherSel>>, <<>>)
    \/ Sql(None)

SpecCond == InitCond /\ [][NextCond]_vars

-----------------------------------------------------------------------------
(* Trees: a query, sound or not, is put inside other values and the whole  *)
(* is rendered                                                             *)

UserTable == <<"u", Table("user")>>

\* queries that render, and queries that fail for an argument, a lookup,
\* a selection and an empty collection
TreeLeaves ==
    {DirectReports,
     where(DirectReports, <<Q(<<NotCombinator>>, <<>>)>>, <<>>).value[1],
     where(DirectReports, <<>>,
           <<KW(<<"p", "__", "id", "__", "qte">>, IntV(1))>>).value[1],
     select(DirectReports, <<OtherSel>>, <<>>).value[1],
     where(DirectReports, <<>>, <<KW(U_ID_IN, ListV(<<>>))>>).value[1]}

InitTree ==
    /\ q \in TreeLeaves
    /\ last = [op |-> "query", arg |-> q.sources, before |-> None,
               self |-> None, status |-> "ok", value |-> Some(q)]
    /\ nops = 0
    /\ acc = <<>>
    /\ log = <<>>
    /\ calls = [t \in Threads |-> Idle]

\* q = query(u="user").where(u__id__in=q)
WhereIn ==
    Step("where", [args |-> <<>>, kwargs |-> <<KW(U_ID_IN, q)>>],
         where(query(<<UserTable>>).value[1], <<>>, <<KW(U_ID_IN, q)>>))

\* the joins that hold q as their target and inside their condition
JoinTo == Join("INNER", q, Some(OnUser), None).value[1]
JoinOn ==
    Join("LEFT", Table("profile"), Some(Q(<<>>, <<KW(U_ID_IN, q)>>)), None).value[1]

NextTree ==
    \/ /\ nops < MaxOps
       /\ \/ Nest("s")
          \/ \E j \in {JoinTo, JoinOn} : NewQuery(<<UserTable, <<"j", j>>>>)
          \/ WhereIn
    \/ \E all \in BOOLEAN : Union(<<DirectReports, q>>, all)
    \/ Cte(MainQuery, <<<<"c", q>>>>) \/ Cte(q, <<<<"dr", DirectReports>>>>)
    \/ RecursiveCte(MainQuery, <<<<"tree", q>>>>)
    \/ \E given \in {None, Some(acc)} : Sql(given)

SpecTree == InitTree /\ [][NextTree]_vars

-----------------------------------------------------------------------------
(* Sources: tables, nested queries and joins are added in every order and  *)
(* the query is rendered                                                   *)

\* Join("profile", on=Q(p__org_id=3)): a join that binds a value
JoinOrg ==
    Join("INNER", Table("profile"),
         Some(Q(<<>>, <<KW(<<"p", "__", "org_id">>, IntV(3))>>)), None).value[1]

FromSources ==
    {<<"o", Table("org")>>, <<"m", Model("public", "member")>>,
     <<"s", DirectReports>>, <<"n", q>>, <<"p", JoinOrg>>}

InitFrom ==
    /\ q \in {query(<<UserTable>>).value[1], query(<<<<"d", DirectReports>>>>).value[1]}
    /\ last = [op |-> "query", arg |-> q.sources, before |-> None,
               self |-> None, status |-> "ok", value |-> Some(q)]
    /\ nops = 0
    /\ acc = <<>>
    /\ log = <<>>
    /\ calls = [t \in Threads |-> Idle]

NextFrom ==
    \/ /\ nops < MaxChain
       /\ \E s \in FromSources : Source(<<s>>)
    \/ Sql(None)

SpecFrom == InitFrom /\ [][NextFrom]_vars

-----------------------------------------------------------------------------
(* Threads: sql() is called from several threads on one value, or on       *)
(* values that hold it, each with a list of its own or with the caller's   *)

ThreadQueries ==
    {DirectReports,
     where(query(<<UserTable>>).value[1], <<>>,
           <<KW(ID, Exp("t.link")), KW(U_ID_IN, DirectReports)>>).value[1],
     where(DirectReports, <<>>,
           <<KW(<<"p", "__", "id", "__", "qte">>, IntV(1))>>).value[1]}

InitThreads ==
    /\ q \in ThreadQueries
    /\ last = [op |-> "query", arg |-> q.sources, before |-> None,
               self |-> None, status |-> "ok", value |-> Some(q)]
    /\ nops = 0
    /\ acc = <<>>
    /\ log = <<>>
    /\ calls = [t \in Threads |-> Idle]

\* the calls: q.sql(), query(s=q).sql() and q.sql(acc)
ThreadCalls ==
    {[self |-> q, given |-> None],
     [self |-> query(<<<<"s", q>>>>).value[1], given |-> None],
     [self |-> q, given |-> Some(acc)]}

Run(t) == AppendValue(t) \/ ReadLength(t) \/ Finish(t)

NextThreads ==
    \/ \E t \in Threads, c \in ThreadCalls : Begin(t, c.self, c.given)
    \/ \E t \in Threads : AppendValue(t)
    \/ \E t \in Threads : ReadLength(t)
    \/ \E t \in Threads : Finish(t)

SpecThreads == InitThreads /\ [][NextThreads]_vars

\* the scheduler runs every thread that can take a step
SpecThreadsFair == SpecThreads /\ \A t \in Threads : WF_vars(Run(t))

-----------------------------------------------------------------------------
(* Slices: a query is given a limit, an offset and slices, and is rendered *)

\* q[a:b] for a in (None, 0, 5) and b in (None, 3, 10); q[5:3] is refused
SliceKeys ==
    { Slice(a, b, None) : a \in {None, Some(0), Some(5)},
                          b \in {None, Some(3), Some(10)} }

NextSlice ==
    \/ /\ nops < MaxOps
       /\ \/ Limit(10)
          \/ Offset(5)
          \/ \E key \in SliceKeys : GetItem(key)
    \/ Sql(None)

SpecSlice == Init /\ [][NextSlice]_vars

-----------------------------------------------------------------------------
(* Conditions combined: here q is a Q, combined with |, & and ~, placed in *)
(* a Q with further entries, and rendered                                  *)

\* Q(id=Exp("t.link"), u__id__range=[1, 100]) and Q(u__id__in=<query>)
QLeaves ==
    {Q(<<>>, <<KW(U_NAME_STARTSWITH, StrV("John"))>>),
     Q(<<>>, <<KW(ID, Exp("t.link")),
               KW(U_ID_RANGE, ListV(<<IntV(1), IntV(100)>>))>>),
     Q(<<>>, <<KW(U_ID_IN, DirectReports)>>)}

InitQ ==
    /\ q \in QLeaves
    /\ last = [op |-> "Q", arg |-> q.kwargs, before |-> None,
               self |-> None, status |-> "ok", value |-> Some(q)]
    /\ nops = 0
    /\ acc = <<>>
    /\ log = <<>>
    /\ calls = [t \in Threads |-> Idle]

\* q = q | other, q = q & other, q = ~q, q = Q(*args, **kwargs)
Combine(op, arg, value) ==
    /\ nops < MaxOps
    /\ log = <<>>
    /\ last' = Call(op, arg, Ok(q, value))
    /\ q' = value
    /\ nops' = nops + 1
    /\ UNCHANGED <<acc, log, calls>>

\* q._render() and q._render(acc)
Render(given) ==
    /\ Len(log) < MaxRenders
    /\ \E r \in {Q_render(q, given)} :
          /\ log' = Append(log, [given |-> given, status |-> r.status,
                                 text |-> r.text, values |-> r.values,
                                 after |-> r.given])
          /\ acc' = IF IsNone(given) THEN acc ELSE r.given[1]
    /\ UNCHANGED <<q, last, nops, calls>>

\* the positional entries written by hand around q
QEntries ==
    {<<[op |-> "NOT", qs |-> <<q>>]>>,
     <<[op |-> "AND", qs |-> <<IdIs1, q>>], [op |-> "NOT", qs |-> <<q>>]>>}

NextQ ==
    \/ \E other \in QLeaves \cup {q} : Combine("or", other, Q_or(q, other))
    \/ \E other \in QLeaves \cup {q} : Combine("and", other, Q_and(q, other))
    \/ Combine("invert", q, Q_invert(q))
    \/ \E args \in QEntries :
          Combine("Q", args, Q(args, <<KW(ID, IntV(7)), KW(U_ID, Exp("t.id"))>>))
    \/ \E given \in {None, Some(acc)} : Render(given)

SpecQ == InitQ /\ [][NextQ]_vars

-----------------------------------------------------------------------------
(* Properties of rendering *)

IsPlaceholder(token) == token.s = "$"

\* the placeholder tokens of a text, in text order
Placeholders(text) == SelectSeq(text, IsPlaceholder)

\* the numbers of the placeholders of a text
Numbers(text) == { text[i].ph : i \in { j \in DOMAIN text : IsPlaceholder(text[j]) } }

\* the renders made without an accumulator that succeeded, and those made
\* with the caller's list
FreshRenders == { i \in DOMAIN log : IsNone(log[i].given) /\ log[i].status = "ok" }
SharedRenders == { i \in DOMAIN log : ~IsNone(log[i].given) /\ log[i].status = "ok" }

\* the values each source, and each condition, binds when rendered alone
RECURSIVE SourceValues(_)
SourceValues(sources) ==
    IF sources = <<>> THEN <<>>
    ELSE LET alias == Head(sources)[1]
             src == Head(sources)[2]
         IN (CASE src.kind = "Join" -> Join_render(src, alias, None).values
               [] src.kind = "Query" -> Query_sql(src, None).values
               [] OTHER -> <<>>)
            \o SourceValues(Tail(sources))

RECURSIVE ConditionValues(_)
ConditionValues(conditions) ==
    IF conditions = <<>> THEN <<>>
    ELSE Q_render(Head(conditions), None).values
         \o ConditionValues(Tail(conditions))

\* C1: after a successful render made without an accumulator, the value list
\* has as many entries as the text has placeholders, the placeholder numbers
\* are exactly 1..len(values), each occurring once, and values[N-1] is the
\* value bound by the leaf that emitted $N.
C1_PlaceholdersIndexValues ==
    \A i \in FreshRenders :
        LET ps == Placeholders(log[i].text)
            values == log[i].values
        IN /\ Len(ps) = Len(values)
           /\ Numbers(log[i].text) = 1..Len(values)
           /\ \A n \in 1..Len(values) :
                 Cardinality({ k \in DOMAIN ps : ps[k].ph = n }) = 1
           /\ \A k \in DOMAIN ps :
                 ps[k].ph \in DOMAIN values /\ values[ps[k].ph] = ps[k].v

\* a recursive CTE over a union of nested queries rendered to four or more
\* values, a sub-query in a condition among them
C1_Witness ==
    /\ q.kind = "RecursiveWith"
    /\ \E i \in FreshRenders :
          /\ Len(log[i].values) >= 4
          /\ \E k \in DOMAIN log[i].text : log[i].text[k] = Lit(" IN ")

\* C2: sql(values) with a caller's list of k entries keeps those k entries
\* in place, appends after them, numbers its placeholders from k+1 on, and
\* returns that same list.
C2_AccumulatorIsExtended ==
    \A i \in SharedRenders :
        LET before == log[i].given[1]
            k == Len(before)
            values == log[i].values
        IN /\ log[i].after = Some(values)
           /\ Len(values) >= k
           /\ SubSeq(values, 1, k) = before
           /\ Numbers(log[i].text) = (k + 1)..Len(values)
           /\ Len(Placeholders(log[i].text)) = Len(values) - k

\* a render into a list that already held entries, which bound new values
C2_Witness ==
    \E i \in SharedRenders :
        /\ log[i].given[1] # <<>>
        /\ Len(log[i].values) > Len(log[i].given[1])
        /\ acc = log[i].values

\* C3 (as the code has it): renders of one builder value made without an
\* accumulator return the same outcome each time, numbered from $1, and
\* leave the builder value as it was; a Query with no conditions, limit or
\* offset whose sources bind no values returns an empty value list.
C3_RenderIsIdempotent ==
    /\ [](/\ \A i, j \in DOMAIN log :
               IsNone(log[i].given) /\ IsNone(log[j].given) =>
                  /\ log[i].status = log[j].status
                  /\ log[i].text = log[j].text
                  /\ log[i].values = log[j].values
          /\ \A i \in FreshRenders :
               /\ log[i].after = None
               /\ log[i].values # <<>> => 1 \in Numbers(log[i].text)
               /\ ( /\ q.kind = "Query"
                    /\ q.conditions = <<>>
                    /\ IsNone(q._limit) /\ IsNone(q._offset)
                    /\ SourceValues(q.sources) = <<>> )
                  => log[i].values = <<>>)
    /\ [][log' # log => q' = q]_vars

\* a value that binds two or more values, rendered twice without an
\* accumulator
C3_Witness ==
    /\ Cardinality(FreshRenders) >= 2
    /\ \E i \in FreshRenders : Len(log[i].values) >= 2

\* C3 as stated: every Query with no conditions, limit or offset renders to
\* an empty value list.
C3_NoConditionsNoValues ==
    \A i \in FreshRenders :
        ( /\ q.kind = "Query"
          /\ q.conditions = <<>>
          /\ IsNone(q._limit) /\ IsNone(q._offset) )
        => log[i].values = <<>>

\* C6: a Query render appends the values of its sources in source order,
\* then those of its conditions in declaration order, then the limit, then
\* the offset; so the LIMIT placeholder is numbered below the OFFSET
\* placeholder and both above every FROM and WHERE placeholder, whichever
\* of limit() and offset() was called first.
C6_ValuesInClauseOrder ==
    \A i \in FreshRenders :
        q.kind = "Query" =>
            LET text == log[i].text
                n == Len(text)
                inner == SourceValues(q.sources) \o ConditionValues(q.conditions)
                hasLimit == ~IsNone(q._limit)
                hasOffset == ~IsNone(q._offset)
                tail == (IF hasLimit THEN 3 ELSE 0) + (IF hasOffset THEN 3 ELSE 0)
            IN /\ log[i].values =
                     inner
                     \o (IF hasLimit THEN <<IntV(q._limit[1])>> ELSE <<>>)
                     \o (IF hasOffset THEN <<IntV(q._offset[1])>> ELSE <<>>)
               /\ \A k \in 1..(n - tail) :
                     IsPlaceholder(text[k]) => text[k].ph <= Len(inner)
               /\ hasLimit =>
                     /\ text[n - tail + 2] = Lit("LIMIT ")
                     /\ text[n - tail + 3].ph = Len(inner) + 1
               /\ hasOffset =>
                     /\ text[n - 1] = Lit("OFFSET ")
                     /\ text[n].ph = Len(inner) + (IF hasLimit THEN 2 ELSE 1)

\* offset(5) then limit(10) on a query whose join and condition bind values
C6_Witness ==
    /\ q.kind = "Query"
    /\ last.op = "limit"
    /\ \E i \in FreshRenders :
          log[i].values = <<IntV(520), IntV(3), IntV(101), IntV(10), IntV(5)>>

\* a text with every placeholder number raised by k
Shift(text, k) ==
    [i \in DOMAIN text |->
        IF IsPlaceholder(text[i]) THEN [text[i] EXCEPT !.ph = @ + k]
        ELSE text[i]]

\* the values the queries bind when each is rendered alone, in order
RECURSIVE OwnValues(_)
OwnValues(queries) ==
    IF queries = <<>> THEN <<>>
    ELSE Query_sql(Head(queries), None).values \o OwnValues(Tail(queries))

\* the text of each query rendered alone, indented, its placeholders
\* numbered from k + 1 on for the first and on from there for the next
RECURSIVE OwnTexts(_, _)
OwnTexts(queries, k) ==
    IF queries = <<>> THEN <<>>
    ELSE LET own == Query_sql(Head(queries), None)
         IN <<indent(Shift(own.text, k))>>
            \o OwnTexts(Tail(queries), k + Len(own.values))

\* C12: QueryUnion.sql returns the members' own value lists concatenated in
\* member order, and the members' own texts with the placeholder numbers
\* running on from one member to the next; the all flag selects the
\* separator and nothing else.
C12_UnionSharesOneSequence ==
    \A i \in FreshRenders :
        q.kind = "QueryUnion" =>
            /\ log[i].values = OwnValues(q.queries)
            /\ log[i].text =
                  join(<<NL, Lit(IF q.all THEN "UNION ALL" ELSE "UNION"), NL>>,
                       OwnTexts(q.queries, 0))

\* a UNION ALL whose second member binds two values or more after the one
\* of the first
C12_Witness ==
    /\ q.kind = "QueryUnion" /\ q.all
    /\ Len(Query_sql(q.queries[2], None).values) >= 2
    /\ \E i \in FreshRenders : Len(log[i].values) >= 3

\* the values bound before the main query of a With or RecursiveWith: those
\* of the CTEs in declaration order, or those of the base union
ValuesBeforeMain(v) ==
    IF v.kind = "With"
    THEN OwnValues([k \in DOMAIN v.ctes |-> v.ctes[k][2]])
    ELSE QueryUnion_sql(v.base, None).values

\* C13: With.sql and RecursiveWith.sql bind the values of the CTEs (of the
\* base union) before those of the main query: the text ends with the main
\* query's own text, its placeholders numbered on from the last one of the
\* CTEs, and every placeholder before it has a smaller number.
C13_CtesNumberedBeforeMain ==
    \A i \in FreshRenders :
        q.kind \in {"With", "RecursiveWith"} =>
            LET before == ValuesBeforeMain(q)
                main == Query_sql(q.main, None)
                text == log[i].text
                n == Len(text)
                m == Len(main.text)
            IN /\ log[i].values = before \o main.values
               /\ n > m
               /\ SubSeq(text, n - m + 1, n) = Shift(main.text, Len(before))
               /\ Numbers(SubSeq(text, 1, n - m)) = 1..Len(before)

\* a With whose two CTEs bind three values or more, before the value of
\* the main query
C13_Witness ==
    /\ q.kind = "With"
    /\ Len(ValuesBeforeMain(q)) >= 3
    /\ \E i \in FreshRenders :
          log[i].values[Len(log[i].values)] = IntV(9)

-----------------------------------------------------------------------------
(* Properties of the builder operations *)

QueryFields == {"sources", "selections", "conditions", "groupbys", "orderbys",
                "_limit", "_offset", "_distinct"}

AppendingOps == {"source", "select", "where", "group_by", "order_by"}
ReplacingOps == {"limit", "offset", "distinct"}

\* the field a builder call targets
FieldOf(op) ==
    CASE op = "source" -> "sources"
      [] op = "select" -> "selections"
      [] op = "where" -> "conditions"
      [] op = "group_by" -> "groupbys"
      [] op = "order_by" -> "orderbys"
      [] op = "limit" -> "_limit"
      [] op = "offset" -> "_offset"
      [] op = "distinct" -> "_distinct"

\* the entries the last call was given, as the targeted field holds them
Given(call) ==
    CASE call.op \in {"select", "where"} ->
           call.arg.args \o (IF call.op = "where" THEN QsOfKwargs(call.arg.kwargs)
                             ELSE call.arg.kwargs)
      [] call.op \in {"limit", "offset"} -> Some(call.arg)
      [] OTHER -> call.arg

\* the last call failed: it gave no Query, and the receiver and the value
\* the program holds are what they were
FailedCleanly ==
    /\ last.value = None
    /\ last.self = last.before
    /\ q = last.before[1]

\* C4: each of source, select, where, group_by, order_by, limit, offset and
\* distinct leaves its receiver as it was and returns a Query equal to the
\* receiver in every field but the targeted one; the first five append
\* their arguments after the existing entries, the last three replace the
\* previous setting.
C4_BuilderCallsReturnNewQuery ==
    last.op \in AppendingOps \cup ReplacingOps =>
        /\ last.self = last.before
        /\ last.status = "ok" =>
              LET old == last.before[1]
                  new == last.value[1]
                  f == FieldOf(last.op)
              IN /\ q = new
                 /\ \A g \in QueryFields \ {f} : new[g] = old[g]
                 /\ last.op \in AppendingOps => new[f] = old[f] \o Given(last)
                 /\ last.op \in ReplacingOps => new[f] = Given(last)

\* a second call added two sources to a query that already had two
C4_Witness ==
    /\ last.op = "source" /\ last.status = "ok"
    /\ Len(last.arg) = 2
    /\ Len(last.before[1].sources) >= 2
    /\ Len(q.sources) = Len(last.before[1].sources) + 2

\* the offset and the limit a slice asks for
SliceIsNegative(key) ==
    \/ ~IsNone(key.start) /\ key.start[1] < 0
    \/ ~IsNone(key.start) /\ ~IsNone(key.stop) /\ key.stop[1] < key.start[1]

C7_SliceDerivesOffsetAndLimit ==
    (last.op = "getitem" /\ last.status = "ok") =>
        LET key == last.arg
            old == last.before[1]
            new == last.value[1]
        IN /\ new._offset = IF IsNone(key.start) THEN old._offset
                            ELSE Some(key.start[1])
           /\ new._limit = IF IsNone(key.stop) THEN old._limit
                           ELSE IF IsNone(key.start) THEN Some(key.stop[1])
                           ELSE Some(key.stop[1] - key.start[1])
           /\ \A g \in QueryFields \ {"_offset", "_limit"} : new[g] = old[g]

\* a slice without a start taken of a query that had an offset
C7_Witness ==
    /\ last.op = "getitem" /\ last.status = "ok"
    /\ IsNone(last.arg.start) /\ last.arg.stop = Some(3)
    /\ last.before[1]._offset = Some(10)
    /\ q._offset = Some(10) /\ q._limit = Some(3)

\* C7 as stated: the offset of the slice is start, and 0 when start is
\* absent; its limit is stop - start, and stop when start is absent.
C7_AbsentStartIsZero ==
    (last.op = "getitem" /\ last.status = "ok") =>
        LET key == last.arg
            new == last.value[1]
        IN /\ new._offset = IF IsNone(key.start) THEN Some(0)
                            ELSE Some(key.start[1])
           /\ ~IsNone(key.stop) =>
                 new._limit = IF IsNone(key.start) THEN Some(key.stop[1])
                              ELSE Some(key.stop[1] - key.start[1])

\* C8 (as the code has it): an index that is not a slice fails with a
\* TypeError and a slice with any explicit step, 1 included, fails with a
\* ValueError; a slice without a step is accepted unless the offset or the
\* limit it asks for is negative; a failing index gives no Query and leaves
\* the receiver unchanged.
C8_OnlyStepFreeSlices ==
    last.op = "getitem" =>
        LET key == last.arg
        IN /\ ~key.isslice => last.status = "TypeError"
           /\ (key.isslice /\ ~IsNone(key.step)) => last.status = "ValueError"
           /\ (key.isslice /\ IsNone(key.step) /\ ~SliceIsNegative(key)
               /\ (IsNone(key.stop) \/ key.stop[1] >= 0))
              => last.status = "ok" /\ last.value # None
           /\ last.status # "ok" => FailedCleanly

\* a slice with the explicit step 1 and sound bounds was refused
C8_Witness ==
    /\ last.op = "getitem" /\ last.arg.isslice
    /\ last.arg.step = Some(1)
    /\ last.arg.start = Some(0) /\ last.arg.stop = Some(10)
    /\ last.status = "ValueError"
    /\ q = last.before[1]

\* C8 as stated: a slice whose step is omitted or is 1 is accepted.
C8_UnitStepAccepted ==
    ( /\ last.op = "getitem" /\ last.arg.isslice
      /\ last.arg.step \in {None, Some(1)}
      /\ ~SliceIsNegative(last.arg) )
    => last.status = "ok"

-----------------------------------------------------------------------------
(* Properties of joins *)

\* the Join sources of the query the program holds
JoinsOf(query_) ==
    { query_.sources[k][2] :
        k \in { j \in DOMAIN query_.sources : query_.sources[j][2].kind = "Join" } }

\* the query with each model a join targets replaced by the model's
\* qualified table name
TargetsNamed(query_) ==
    [query_ EXCEPT !.sources =
        [k \in DOMAIN query_.sources |->
            LET src == query_.sources[k][2]
            IN IF src.kind = "Join" /\ src.to.kind = "Model"
               THEN <<query_.sources[k][1],
                      [src EXCEPT !.to = Table(src.to.schema \o "." \o src.to.name)]>>
               ELSE query_.sources[k]]]

\* C9 as stated: constructing a Join succeeds exactly when one of on and
\* using is supplied and the other is not, so every Join that exists
\* carries exactly one of them.
C9_ExactlyOneOfOnUsing ==
    /\ last.op = "Join" =>
          (last.status = "ok" <=> (IsNone(last.arg.on) # IsNone(last.arg.using)))
    /\ \A j \in JoinsOf(q) : IsNone(j.on) # IsNone(j.using)

\* C10 as stated: a Join renders whatever the kind of its target, and a
\* Join to a model renders the text of the Join to the model's qualified
\* table name.
C10_JoinRendersEveryTarget ==
    \A i \in DOMAIN log :
        /\ log[i].status = "ok"
        /\ log[i].text = sql(TargetsNamed(q), None).text

-----------------------------------------------------------------------------
(* Properties of the constructors *)

\* the structural invariants of a value and of the values nested in its
\* sources, join targets, members, CTEs, main query and base
RECURSIVE WellFormed(_)
WellFormed(v) ==
    CASE v.kind = "Query" ->
           /\ v.sources # <<>>
           /\ \A k \in DOMAIN v.sources :
                 LET src == v.sources[k][2]
                 IN /\ src.kind = "Query" => WellFormed(src)
                    /\ (src.kind = "Join" /\ src.to.kind = "Query")
                       => WellFormed(src.to)
      [] v.kind = "QueryUnion" ->
           /\ Len(v.queries) >= 2
           /\ \A k \in DOMAIN v.queries : WellFormed(v.queries[k])
      [] v.kind = "With" ->
           /\ v.ctes # <<>>
           /\ WellFormed(v.main)
           /\ \A k \in DOMAIN v.ctes : WellFormed(v.ctes[k][2])
      [] v.kind = "RecursiveWith" -> WellFormed(v.main) /\ WellFormed(v.base)
      [] OTHER -> TRUE

\* C11: query() without a source, union() of fewer than two queries, cte()
\* without a CTE and recursive_cte() with other than one aliased base each
\* fail with a ValueError and build nothing, and succeed otherwise; so every
\* Query has a source, every QueryUnion two members or more and every With
\* a CTE, after any sequence of calls.
C11_ConstructorsKeepStructure ==
    /\ last.op = "query" => (last.status = "ok" <=> last.arg # <<>>)
    /\ last.op = "union" => (last.status = "ok" <=> Len(last.arg) >= 2)
    /\ last.op = "cte" => (last.status = "ok" <=> last.arg # <<>>)
    /\ last.op = "recursive_cte" => (last.status = "ok" <=> Len(last.arg) = 1)
    /\ (last.op \in {"query", "union", "cte", "recursive_cte"}
        /\ last.status # "ok")
       => last.status = "ValueError" /\ last.value = None
    /\ WellFormed(q)
    /\ last.value # None => WellFormed(last.value[1])

\* union() of a single query failed after two builder calls, and the program
\* still holds the Query it had
C11_Witness ==
    /\ last.op = "union" /\ Len(last.arg) = 1
    /\ last.status = "ValueError"
    /\ nops = 2 /\ q.kind = "Query" /\ Len(q.sources) >= 2

-----------------------------------------------------------------------------
(* Properties of conditions *)

\* the values Python treats as false
Falsy ==
    {NoneV, BoolV(FALSE), IntV(0), FloatV(0), StrV(""), ListV(<<>>),
     TupleV(<<>>), SetV(<<>>), DictV(<<>>)}

IsLeaf(value) == value.kind \notin {"Exp", "Query"}

\* the number of tokens of a text equal to a literal
Count(text, s) == Cardinality({ k \in DOMAIN text : text[k] = Lit(s) })

\* a condition made of one keyword entry
IsEntry(c) == c.args = <<>> /\ Len(c.kwargs) = 1
LookupOf(c) == _split_lookup(c.kwargs[1].key).lookup
ValueOf(c) == c.kwargs[1].value

\* an entry whose value holds no expression and no sub-query
IsPlainEntry(c) ==
    /\ IsEntry(c)
    /\ CASE LookupOf(c) = "isnull" -> TRUE
         [] LookupOf(c) = "range" ->
              /\ ValueOf(c).kind \in {"list", "tuple"}
              /\ \A k \in DOMAIN ValueOf(c).items : IsLeaf(ValueOf(c).items[k])
         [] OTHER -> IsLeaf(ValueOf(c))

\* what a plain entry appends
PlainBinds(c) ==
    CASE LookupOf(c) = "isnull" -> <<>>
      [] LookupOf(c) = "range" -> <<ValueOf(c).items[1], ValueOf(c).items[2]>>
      [] OTHER -> <<ValueOf(c)>>

RECURSIVE PlainValues(_)
PlainValues(conditions) ==
    IF conditions = <<>> THEN <<>>
    ELSE PlainBinds(Head(conditions)) \o PlainValues(Tail(conditions))

IsNullEntries(truthy) ==
    { k \in DOMAIN q.conditions :
         /\ LookupOf(q.conditions[k]) = "isnull"
         /\ (ValueOf(q.conditions[k]) \notin Falsy) = truthy }

\* C14: a lookup over a plain value appends exactly one value for equality,
\* contains, startswith, endswith, gte, lte, gt and lt, the two values start
\* and end for range, the whole collection as one value for in, and none
\* for isnull, which renders IS NULL for a truthy value and IS NOT NULL for
\* a falsy one.
C14_EntriesBindTheirValues ==
    \A i \in FreshRenders :
        (\A k \in DOMAIN q.conditions : IsPlainEntry(q.conditions[k])) =>
            /\ log[i].values = PlainValues(q.conditions)
            /\ Count(log[i].text, " IS NULL") = Cardinality(IsNullEntries(TRUE))
            /\ Count(log[i].text, " IS NOT NULL") = Cardinality(IsNullEntries(FALSE))

\* a range over (1, 100) followed by isnull=False rendered to two values
C14_Witness ==
    /\ Len(q.conditions) = 2
    /\ IsPlainEntry(q.conditions[1]) /\ LookupOf(q.conditions[1]) = "range"
    /\ IsPlainEntry(q.conditions[2]) /\ LookupOf(q.conditions[2]) = "isnull"
    /\ \E i \in FreshRenders :
          /\ log[i].values = <<IntV(1), IntV(100)>>
          /\ Count(log[i].text, " IS NOT NULL") = 1

\* the values an entry binds: an expression binds none, a sub-query binds
\* its own
LeafValues(value) ==
    CASE value.kind = "Exp" -> <<>>
      [] value.kind = "Query" -> Query_sql(value, None).values
      [] OTHER -> <<value>>

Binds(c) ==
    CASE LookupOf(c) = "isnull" -> <<>>
      [] LookupOf(c) = "range" ->
           LeafValues(ValueOf(c).items[1]) \o LeafValues(ValueOf(c).items[2])
      [] OTHER -> LeafValues(ValueOf(c))

RECURSIVE AllBinds(_)
AllBinds(conditions) ==
    IF conditions = <<>> THEN <<>>
    ELSE Binds(Head(conditions)) \o AllBinds(Tail(conditions))

\* the expressions given as the value, or as a range bound, of the entries
Expressions(c) ==
    IF LookupOf(c) = "range"
    THEN { ValueOf(c).items[k].expression :
              k \in { j \in DOMAIN ValueOf(c).items :
                         ValueOf(c).items[j].kind = "Exp" } }
    ELSE IF ValueOf(c).kind = "Exp" /\ LookupOf(c) # "isnull"
    THEN {ValueOf(c).expression}
    ELSE {}

\* C15: an Exp value is written into the text as it is and never enters the
\* value list; the other leaves are numbered as if the expression were not
\* there.
C15_ExpressionsBindNothing ==
    \A i \in FreshRenders :
        (\A k \in DOMAIN q.conditions : IsEntry(q.conditions[k])) =>
            LET ps == Placeholders(log[i].text)
            IN /\ \A n \in DOMAIN log[i].values : log[i].values[n].kind # "Exp"
               /\ log[i].values = AllBinds(q.conditions)
               /\ \A n \in DOMAIN ps : ps[n].ph = n
               /\ \A k \in DOMAIN q.conditions :
                     \A e \in Expressions(q.conditions[k]) :
                         Count(log[i].text, e) >= 1

\* a range from Exp("t.lo") to 100 followed by an equality with 7 rendered
\* to $1 and $2
C15_Witness ==
    /\ Len(q.conditions) = 2
    /\ IsEntry(q.conditions[1])
    /\ LookupOf(q.conditions[1]) = "range"
    /\ ValueOf(q.conditions[1]) = ListV(<<Exp("t.lo"), IntV(100)>>)
    /\ \E i \in FreshRenders :
          /\ log[i].values = <<IntV(100), IntV(7)>>
          /\ Count(log[i].text, "t.lo") = 1

\* part occurs in text as consecutive tokens
Contains(text, part) ==
    \E j \in 1..(Len(text) - Len(part) + 1) :
        SubSeq(text, j, j + Len(part) - 1) = part

\* the entries whose value is a sub-query
SubqueryEntries ==
    { k \in DOMAIN q.conditions :
         /\ IsEntry(q.conditions[k])
         /\ LookupOf(q.conditions[k]) \notin {"isnull", "range"}
         /\ ValueOf(q.conditions[k]).kind = "Query" }

\* C16: a Query given as a lookup value is rendered on the accumulator of
\* the enclosing query: its placeholders continue the count reached before
\* it, its values follow those bound before it, and the conditions after it
\* continue from where it stopped, whatever the depth of nesting.
C16_SubqueryContinuesTheCount ==
    \A i \in FreshRenders :
        (\A k \in DOMAIN q.conditions : IsEntry(q.conditions[k])) =>
            /\ \A k \in SubqueryEntries :
                  LET sub == Query_sql(ValueOf(q.conditions[k]), None)
                      before == Len(AllBinds(SubSeq(q.conditions, 1, k - 1)))
                      after == AllBinds(SubSeq(q.conditions, k + 1,
                                               Len(q.conditions)))
                  IN /\ Contains(log[i].text,
                                 Parenthesized(Shift(sub.text, before)))
                     /\ Len(log[i].values) = before + Len(sub.values) + Len(after)
                     /\ SubSeq(log[i].values, before + 1,
                               before + Len(sub.values)) = sub.values
                     /\ SubSeq(log[i].values, before + Len(sub.values) + 1,
                               Len(log[i].values)) = after
            /\ Numbers(log[i].text) = 1..Len(log[i].values)

\* a sub-query that itself holds a sub-query, followed by an equality with
\* 7 that is numbered $3
C16_Witness ==
    /\ Len(q.conditions) = 2
    /\ 1 \in SubqueryEntries
    /\ ValueOf(q.conditions[1]) = Deep
    /\ \E i \in FreshRenders :
          /\ log[i].values = <<IntV(520), IntV(5), IntV(7)>>
          /\ Contains(log[i].text, <<Lit(" = "), [ph |-> 3, s |-> "$", v |-> IntV(7)]>>)

\* a key is given as its segments with the "__" between them
Segments(key) == (Len(key) + 1) \div 2
Segment(key, n) == key[2 * n - 1]

Keywords ==
    {"contains", "startswith", "endswith", "range", "in", "isnull", "gte",
     "lte", "gt", "lt"}

\* (table, column, lookup) of a key of one to three segments
Parts(key) ==
    CASE Segments(key) = 1 -> <<"", Segment(key, 1), "">>
      [] Segments(key) = 2 /\ Segment(key, 2) \in Keywords ->
           <<"", Segment(key, 1), Segment(key, 2)>>
      [] Segments(key) = 2 -> <<Segment(key, 1), Segment(key, 2), "">>
      [] Segments(key) = 3 -> <<Segment(key, 1), Segment(key, 2), Segment(key, 3)>>

Qualified(table, column) ==
    <<Lit("\""), Lit(table), Lit("\".\""), Lit(column), Lit("\"")>>

\* C17: a key of one segment is a column, of two a column and a lookup when
\* the second is a lookup keyword and a table and a column otherwise, of
\* three a table, a column and a lookup; any other number of segments is
\* the invalid-lookup error. The column is written "table"."column" when
\* a table is present and "column" otherwise.
C17_KeysSplitBySegments ==
    /\ \A k \in DOMAIN q.conditions :
          IsEntry(q.conditions[k]) =>
              LET key == q.conditions[k].kwargs[1].key
                  sp == _split_lookup(key)
              IN IF Segments(key) > 3
                 THEN sp.status = ValueError("Invalid lookup")
                 ELSE /\ sp.status = "ok"
                      /\ <<sp.table, sp.column, sp.lookup>> = Parts(key)
    /\ \A i \in DOMAIN log :
          Len(q.conditions) = 1 /\ IsEntry(q.conditions[1])
          /\ q.selections = <<>> =>
              LET key == q.conditions[1].kwargs[1].key
              IN IF Segments(key) > 3
                 THEN log[i].status = ValueError("Invalid lookup")
                 ELSE log[i].status = "ok" =>
                        LET table == Parts(key)[1]
                            column == Parts(key)[2]
                        IN IF table # ""
                           THEN Contains(log[i].text, Qualified(table, column))
                           ELSE /\ Contains(log[i].text,
                                            <<Lit("\""), Lit(column), Lit("\"")>>)
                                /\ ~Contains(log[i].text,
                                             <<Lit("\".\""), Lit(column)>>)

\* id__qte=101 rendered as an equality on "id"."qte"
C17_Witness ==
    /\ Len(q.conditions) = 1
    /\ IsEntry(q.conditions[1])
    /\ q.conditions[1].kwargs[1] = KW(<<"id", "__", "qte">>, IntV(101))
    /\ \E i \in FreshRenders :
          Contains(log[i].text,
                   Qualified("id", "qte")
                   \o <<Lit(" = "), [ph |-> 1, s |-> "$", v |-> IntV(101)]>>)

\* the shapes that cannot be rendered
IsBadArgument(c) ==
    /\ Len(c.args) >= 1
    /\ c.args[1].op \notin {"OR", "AND", "NOT"}

HasLookupSegment(c) == IsEntry(c) /\ Segments(c.kwargs[1].key) = 3

IsBadSelection(selection) == selection.kind \notin {"str", "tuple"}

\* the render reaches condition k: the selections are well formed and the
\* conditions before k render
Reaches(k) ==
    /\ \A n \in DOMAIN q.selections : ~IsBadSelection(q.selections[n])
    /\ \A j \in 1..(k - 1) : Q_render(q.conditions[j], None).status = "ok"

BuilderCallsAccepted ==
    last.op \in {"where", "select"} => last.status = "ok"

\* C18: where() and select() accept every shape, and the render fails with
\* 'Invalid argument' on a positional entry that is not a combinator, with 'Unsupported lookup' on a key whose lookup segment is
\* not a lookup keyword, and with 'Invalid selection' on a selection of
\* another shape.
C18_AnyOtherLookupSegmentFails ==
    /\ BuilderCallsAccepted
    /\ \A i \in DOMAIN log :
          /\ (\E n \in DOMAIN q.selections : IsBadSelection(q.selections[n]))
                => log[i].status = ValueError("Invalid selection")
          /\ \A k \in DOMAIN q.conditions :
                Reaches(k) =>
                    /\ IsBadArgument(q.conditions[k])
                          => log[i].status = ValueError("Invalid argument")
                    /\ (/\ HasLookupSegment(q.conditions[k])
                        /\ Segment(q.conditions[k].kwargs[1].key, 3) \notin Keywords)
                          => log[i].status = ValueError("Unsupported lookup")

\* the array type an element kind gives; a bool is an int
ArrayTypes ==
    [int |-> "int", bool |-> "int", str |-> "text", float |-> "float",
     datetime |-> "timestamptz", date |-> "date"]

\* the query holds one condition, an in lookup over a value that is not a
\* Query, and nothing else that can fail
OneInEntry ==
    /\ q.selections = <<>>
    /\ Len(q.conditions) = 1
    /\ IsEntry(q.conditions[1])
    /\ Segments(q.conditions[1].kwargs[1].key) \in {2, 3}
    /\ LookupOf(q.conditions[1]) = "in"
    /\ ValueOf(q.conditions[1]).kind # "Query"

Unsupported == ValueError("Unsupported value for 'in' lookup")

\* C19: the array type of an in lookup over a list, tuple or set is that of
\* the kind of its first element, whatever the others are; a first element
\* of another kind fails, and so does a value that is not a list, tuple,
\* set or Query.
C19_FirstElementGivesArrayType ==
    \A i \in DOMAIN log :
        OneInEntry =>
            LET value == ValueOf(q.conditions[1])
            IN IF value.kind \notin {"list", "tuple", "set"}
               THEN log[i].status = Unsupported
               ELSE value.items # <<>> =>
                      IF value.items[1].kind \in DOMAIN ArrayTypes
                      THEN /\ log[i].status = "ok"
                           /\ log[i].values = <<value>>
                           /\ Contains(log[i].text,
                                 <<Lit(" = any("),
                                   [ph |-> 1, s |-> "$", v |-> value],
                                   Lit("::"),
                                   Lit(ArrayTypes[value.items[1].kind]),
                                   Lit("[])")>>)
                      ELSE log[i].status = Unsupported

\* the list [datetime, date] rendered as a timestamptz array
C19_Witness ==
    /\ OneInEntry
    /\ ValueOf(q.conditions[1]) = ListV(<<DatetimeV(1), DateV(2)>>)
    /\ \E i \in FreshRenders :
          Contains(log[i].text, <<Lit("::"), Lit("timestamptz"), Lit("[])")>>)

\* the value errors a render raises
ValueErrors ==
    { ValueError(message) :
        message \in {"Invalid lookup", "Invalid argument", "Unsupported lookup",
                     "Unsupported value for 'in' lookup", "Invalid selection",
                     "Invalid source for join", "too many values to unpack",
                     "not enough values to unpack"} }

\* the elements of a collection are not all of one kind
IsMixed(value) ==
    \E j, k \in DOMAIN value.items : value.items[j].kind # value.items[k].kind

\* C20: an in lookup over an empty collection, or over a collection that
\* mixes element kinds, fails when rendered with a value error, as an
\* unsupported collection type does.
C20_EmptyAndMixedFail ==
    \A i \in DOMAIN log :
        OneInEntry =>
            LET value == ValueOf(q.conditions[1])
            IN (/\ value.kind \in {"list", "tuple", "set"}
                /\ (value.items = <<>> \/ IsMixed(value)))
                   => log[i].status \in ValueErrors

-----------------------------------------------------------------------------
(* Properties of failures *)

\* the part fails when it is rendered on its own
Fails(part) ==
    CASE part.kind = "Q" -> Q_render(part, None).status # "ok"
      [] part.kind = "Join" -> Join_render(part, "j", None).status # "ok"
      [] OTHER -> sql(part, None).status # "ok"

\* some value inside v, at any depth, fails on its own: a nested source, a
\* join, its target or its condition, a condition, a sub-query given to a
\* lookup, a CTE, a main query, a union member
RECURSIVE FailsInside(_)
FailsInside(v) ==
    LET Bad(part) == Fails(part) \/ FailsInside(part)
    IN CASE v.kind = "Query" ->
              \/ \E k \in DOMAIN v.sources :
                    /\ v.sources[k][2].kind \in {"Join", "Query"}
                    /\ Bad(v.sources[k][2])
              \/ \E k \in DOMAIN v.conditions : Bad(v.conditions[k])
         [] v.kind = "Join" ->
              \/ v.to.kind = "Query" /\ Bad(v.to)
              \/ TruthyQ(v.on) /\ Bad(v.on[1])
         [] v.kind = "Q" ->
              \/ \E k \in DOMAIN v.args :
                    \E n \in DOMAIN v.args[k].qs : Bad(v.args[k].qs[n])
              \/ \E k \in DOMAIN v.kwargs :
                    /\ v.kwargs[k].value.kind = "Query"
                    /\ Bad(v.kwargs[k].value)
         [] v.kind = "With" ->
              \/ Bad(v.main)
              \/ \E k \in DOMAIN v.ctes : Bad(v.ctes[k][2])
         [] v.kind = "QueryUnion" -> \E k \in DOMAIN v.queries : Bad(v.queries[k])
         [] v.kind = "RecursiveWith" -> Bad(v.main) \/ Bad(v.base)

\* C21: when a value inside the rendered one fails to render, at any depth
\* and in any position, the render of the whole fails and returns no text.
C21_FailuresReachTheCaller ==
    \A i \in DOMAIN log :
        FailsInside(q) => log[i].status # "ok" /\ log[i].text = <<>>

\* a CTE whose query holds, as a join target, a query with an unsupported
\* lookup: the render of the With fails with that error
C21_Witness ==
    /\ q.kind = "With"
    /\ q.ctes[1][2].sources[Len(q.ctes[1][2].sources)][2].kind = "Join"
    /\ FailsInside(q.ctes[1][2].sources[Len(q.ctes[1][2].sources)][2])
    /\ \E i \in DOMAIN log : log[i].status = ValueError("Unsupported lookup")

-----------------------------------------------------------------------------
(* Properties of the FROM clause *)

\* the strings of a text, the placeholder numbers left aside
Shape(text) == [k \in DOMAIN text |-> text[k].s]

\* the FROM entries of the sources that are not joins, and the texts of the
\* joins, each in the order the sources were added
RECURSIVE ListEntries(_)
ListEntries(sources) ==
    IF sources = <<>> THEN <<>>
    ELSE LET alias == Head(sources)[1]
             src == Head(sources)[2]
             As == <<Lit(" AS \""), Lit(alias), Lit("\"")>>
         IN (CASE src.kind = "Join" -> <<>>
               [] src.kind = "Query" ->
                    <<Parenthesized(Query_sql(src, None).text) \o As>>
               [] src.kind = "str" -> <<<<Lit(src.s)>> \o As>>
               [] OTHER -> <<tablename(src) \o As>>)
            \o ListEntries(Tail(sources))

RECURSIVE JoinEntries(_)
JoinEntries(sources) ==
    IF sources = <<>> THEN <<>>
    ELSE LET alias == Head(sources)[1]
             src == Head(sources)[2]
         IN (IF src.kind = "Join"
             THEN <<indent(<<NL>> \o Join_render(src, alias, None).text)>>
             ELSE <<>>)
            \o JoinEntries(Tail(sources))

\* C22: the FROM clause is one comma-separated list holding every table,
\* table reference and nested query in the order the sources were added,
\* followed by the joins in the order they were added.
C22_FromFollowsInsertionOrder ==
    \A i \in FreshRenders :
        q.kind = "Query" =>
            Shape(log[i].text)
              = Shape(<<Lit("SELECT "), Lit("*"), NL, Lit("FROM ")>>
                      \o join(<<Lit(", ")>>, ListEntries(q.sources))
                      \o join(<<NL>>, JoinEntries(q.sources)))

\* the source binds a value when rendered
BindsValues(alias, src) ==
    CASE src.kind = "Join" -> Join_render(src, alias, None).values # <<>>
      [] src.kind = "Query" -> Query_sql(src, None).values # <<>>
      [] OTHER -> FALSE

\* no join that binds values was added before a nested query that binds
\* values, in the query or in a query nested in it
RECURSIVE NoJoinBeforeNested(_)
NoJoinBeforeNested(v) ==
    /\ \A j, k \in DOMAIN v.sources :
          (/\ j < k
           /\ v.sources[j][2].kind = "Join"
           /\ v.sources[k][2].kind = "Query")
          => ~(/\ BindsValues(v.sources[j][1], v.sources[j][2])
               /\ BindsValues(v.sources[k][1], v.sources[k][2]))
    /\ \A k \in DOMAIN v.sources :
          /\ v.sources[k][2].kind = "Query" => NoJoinBeforeNested(v.sources[k][2])
          /\ (v.sources[k][2].kind = "Join" /\ v.sources[k][2].to.kind = "Query")
                => NoJoinBeforeNested(v.sources[k][2].to)

InTextOrder(text) ==
    \A k \in DOMAIN Placeholders(text) : Placeholders(text)[k].ph = k

\* C28 as stated: the placeholders of a rendered text read $1, $2, ... from
\* start to end, for every combination of sources.
C28_PlaceholdersInTextOrder ==
    \A i \in FreshRenders : InTextOrder(log[i].text)

\* C28: the placeholders of a rendered text read $1, $2, ... from start to
\* end when no join that binds values was added before a nested query that
\* binds values; the numbers follow the order the sources were added, and
\* the text of a nested query is written before that of every join.
C28_TextOrderUnlessJoinFirst ==
    \A i \in FreshRenders :
        /\ log[i].values = SourceValues(q.sources)
        /\ NoJoinBeforeNested(q) => InTextOrder(log[i].text)

\* a nested query added before a join, both binding a value: $1 is in the
\* nested query and $2 in the join after it
C28_Witness ==
    /\ Len(q.sources) = 3
    /\ q.sources[2][2].kind = "Query"
    /\ q.sources[3][2].kind = "Join"
    /\ \E i \in FreshRenders :
          /\ Len(log[i].values) = 2
          /\ InTextOrder(log[i].text)

-----------------------------------------------------------------------------
(* Properties of concurrent renders *)

\* C23: a call that is given no list, and so works on a list of its own,
\* returns the text and the values of the sequential render of its value,
\* or fails as that render does, whatever the other threads do meanwhile
\* on the same value or on a value that holds it.
C23_ConcurrentRendersAgree ==
    \A t \in Threads :
        (calls[t].pc = "done" /\ IsNone(calls[t].given)) =>
            LET r == sql(calls[t].self[1], Some(<<>>))
            IN /\ calls[t].status = r.status
               /\ calls[t].text = r.text
               /\ calls[t].values = r.values

\* thread 1 has returned the render of q while thread 2 is between the
\* append and the length read of a render of the query that holds q
C23_Witness ==
    /\ calls[1].pc = "done" /\ IsNone(calls[1].given)
    /\ calls[1].status = "ok" /\ calls[1].values # <<>>
    /\ calls[2].pc = "number" /\ IsNone(calls[2].given)
    /\ calls[1].self = Some(q)
    /\ calls[2].self # Some(q)

Sharing == { t \in Threads : calls[t].pc # "idle" /\ calls[t].shared }

\* leaf k of the call of thread t read the number of its own value
IndexesOwnValue(t, k) ==
    /\ calls[t].numbers[k] \in DOMAIN ListOf(calls[t])
    /\ calls[t].numbers[k] = calls[t].at[k]

\* C27: the append of a leaf and its read of the length are two steps.  A
\* value stays where it was appended and a leaf never reads a number below
\* the position of its value; the number is that position for a call that
\* works on a list of its own or is alone on the caller's list, and
\* between two calls on one list it can be higher.
C27_SharedListIsNotSafe ==
    \A t \in Threads :
        /\ \A k \in DOMAIN calls[t].at :
              ListOf(calls[t])[calls[t].at[k]] = Leaves(calls[t].self[1])[k]
        /\ \A k \in DOMAIN calls[t].numbers :
              /\ calls[t].numbers[k] >= calls[t].at[k]
              /\ calls[t].numbers[k] <= Len(ListOf(calls[t]))
              /\ (~calls[t].shared \/ Sharing = {t}) => IndexesOwnValue(t, k)

\* two calls on one list have returned: both leaves read $2, and the first
\* call's number indexes the value of the second
C27_Witness ==
    /\ Sharing = {1, 2}
    /\ calls[1].pc = "done" /\ calls[2].pc = "done"
    /\ calls[1].status = "ok" /\ calls[2].status = "ok"
    /\ calls[1].numbers = <<2>> /\ calls[2].numbers = <<2>>
    /\ calls[1].at = <<1>>
    /\ ~IndexesOwnValue(1, 1)

-----------------------------------------------------------------------------
(* Properties of combined conditions *)

Combinators == [or |-> "OR", and |-> "AND", invert |-> "NOT"]

\* C25: |, & and ~ return a condition that holds one positional entry, the
\* combinator over the operands as they were, and no lookup entry; the
\* operands keep their entries and render as before.
C25_OperatorsWrapTheirOperands ==
    last.op \in DOMAIN Combinators =>
        LET self == last.before[1]
            operands == IF last.op = "invert" THEN <<self>> ELSE <<self, last.arg>>
        IN /\ q.kwargs = <<>>
           /\ q.args = <<[op |-> Combinators[last.op], qs |-> operands]>>
           /\ last.self = last.before
           /\ Q_render(q.args[1].qs[1], None) = Q_render(self, None)

\* a condition with two lookup entries was combined with itself by |, and
\* the result, which holds none, was rendered
C25_Witness ==
    /\ last.op = "or"
    /\ last.arg = last.before[1]
    /\ Len(last.before[1].kwargs) = 2
    /\ q.kwargs = <<>>
    /\ \E i \in FreshRenders : Len(log[i].values) = 4

\* the entries of a condition, each as a condition of its own: the
\* positional ones, then the lookup ones
EntriesOf(c) ==
    [k \in 1..(Len(c.args) + Len(c.kwargs)) |->
        IF k <= Len(c.args) THEN Q(<<c.args[k]>>, <<>>)
        ELSE Q(<<>>, <<c.kwargs[k - Len(c.args)]>>)]

\* each condition of cs rendered on a list of its own
Alone(cs) == [k \in DOMAIN cs |-> Q_render(cs[k], None)]

\* the texts of rs, each numbered after the values of those before it
RECURSIVE InOrder(_, _)
InOrder(rs, k) ==
    IF rs = <<>> THEN <<>>
    ELSE <<Shift(Head(rs).text, k)>> \o InOrder(Tail(rs), k + Len(Head(rs).values))

RECURSIVE ValuesInOrder(_)
ValuesInOrder(rs) ==
    IF rs = <<>> THEN <<>> ELSE Head(rs).values \o ValuesInOrder(Tail(rs))

\* the text of one positional entry, from the renders of its operands
Combined(e) ==
    LET operands == Alone(e.qs)
    IN IF e.op = "NOT"
       THEN <<Lit("NOT (")>> \o operands[1].text \o <<Lit(")")>>
       ELSE <<Lit("(")>>
            \o join(<<Lit(" "), Lit(e.op), Lit(" ")>>, InOrder(operands, 0))
            \o <<Lit(")")>>

\* C26: a condition renders its positional entries and then its lookup
\* entries, joined with AND and numbered in that order; an entry renders
\* as (L OR R), (L AND R) or NOT (Q), the left operand numbered before the
\* right one, the operands themselves rendered by the same rule.
C26_CombinatorsRenderLeftToRight ==
    \A i \in FreshRenders :
        /\ log[i].text = join(<<Lit(" AND ")>>, InOrder(Alone(EntriesOf(q)), 0))
        /\ log[i].values = ValuesInOrder(Alone(EntriesOf(q)))
        /\ \A k \in DOMAIN q.args :
              LET r == Q_render(Q(<<q.args[k]>>, <<>>), None)
              IN /\ r.text = Combined(q.args[k])
                 /\ r.values = ValuesInOrder(Alone(q.args[k].qs))

\* a rendered condition holds two positional entries and two lookup
\* entries, the first entry an AND whose right operand is an OR of two
\* conditions that bind values
C26_Witness ==
    /\ Len(q.args) = 2
    /\ Len(q.kwargs) = 2
    /\ q.args[1].op = "AND"
    /\ q.args[1].qs[2].args # <<>>
    /\ q.args[1].qs[2].args[1].op = "OR"
    /\ \E i \in FreshRenders : Len(log[i].values) >= 6

-----------------------------------------------------------------------------
(* Properties of a failed render on the caller's list *)

Renders == {"Query", "Join", "Q", "With", "QueryUnion", "RecursiveWith"}

\* the parts of v that a render finishes before the first part that fails
RECURSIVE Finishes(_, _)
Finishes(parts, k) ==
    IF k > Len(parts) THEN parts
    ELSE IF parts[k].kind \in Renders /\ Fails(parts[k]) THEN SubSeq(parts, 1, k - 1)
    ELSE Finishes(parts, k + 1)

Before(v) == Finishes(Children(v), 1)

\* the renders that failed on a list of the caller
FailedOnGiven == { i \in DOMAIN log : ~IsNone(log[i].given) /\ log[i].status # "ok" }

\* C29: a render that fails on the caller's list leaves there what it
\* appended: the list it was given, followed by the values of the parts
\* rendered before the failing one, and by nothing that the value does not
\* bind; a failure for an invalid selection of the query itself leaves the
\* list as it was given.
C29_FailedRenderKeepsItsAppends ==
    \A i \in FailedOnGiven :
        LET old == log[i].given[1]
            new == log[i].after[1]
            n == Len(new) - Len(old)
            sure == Flat([k \in DOMAIN Before(q) |-> Leaves(Before(q)[k])])
        IN /\ n \in 0..Len(Leaves(q))
           /\ new = old \o SubSeq(Leaves(q), 1, n)
           /\ (\A j \in (i + 1)..Len(log) : IsNone(log[j].given)) => acc = new
           /\ IF q.kind = "Query" /\ \E k \in DOMAIN q.selections :
                                        IsBadSelection(q.selections[k])
              THEN n = 0
              ELSE n >= Len(sure)

\* two renders on the caller's list failed: the first was given an empty
\* list and left two values or more in it, the second was given that list
\* and left the same values in it once more
C29_Witness ==
    /\ Len(log) = 2
    /\ FailedOnGiven = {1, 2}
    /\ log[1].given = Some(<<>>)
    /\ Len(log[1].after[1]) >= 2
    /\ log[2].given = log[1].after
    /\ acc = log[1].after[1] \o log[1].after[1]

-----------------------------------------------------------------------------
(* Properties of a slice beside the bounds it is given *)

\* the text ends with the placeholder of the offset o
EndsWithOffset(text, o) ==
    /\ Len(text) >= 2
    /\ text[Len(text) - 1] = Lit("OFFSET ")
    /\ IsPlaceholder(text[Len(text)])
    /\ text[Len(text)].v = IntV(o)

\* C30: a slice leaves the offset as it was when it has no start and the
\* limit as it was when it has no stop; q[start:] sets the offset to start,
\* q[:stop] sets the limit to stop, and an offset kept is rendered; q[:] is
\* equal to the receiver; no other field of the query changes.
C30_SliceKeepsWhatItIsNotGiven ==
    (last.op = "getitem" /\ last.status = "ok") =>
        LET key == last.arg
            old == last.before[1]
        IN /\ IsNone(key.start) => q._offset = old._offset
           /\ IsNone(key.stop) => q._limit = old._limit
           /\ ~IsNone(key.start) => q._offset = key.start
           /\ (IsNone(key.start) /\ ~IsNone(key.stop)) => q._limit = key.stop
           /\ (IsNone(key.start) /\ IsNone(key.stop)) => q = old
           /\ \A g \in {"sources", "selections", "conditions", "groupbys",
                         "orderbys", "_distinct"} : q[g] = old[g]
           /\ last.self = last.before
           /\ (IsNone(key.start) /\ ~IsNone(old._offset)) =>
                 \A i \in FreshRenders : EndsWithOffset(log[i].text, old._offset[1])

\* q.offset(5)[:3] was rendered: the limit is 3 and the text ends with the
\* offset 5
C30_Witness ==
    /\ last.op = "getitem" /\ last.status = "ok"
    /\ last.arg = Slice(None, Some(3), None)
    /\ last.before[1]._offset = Some(5)
    /\ q._limit = Some(3)
    /\ \E i \in FreshRenders : EndsWithOffset(log[i].text, 5)

=============================================================================
